---- MODULE Spec2Model ----
(***************************************************************************)
(* Model of stockeye's market-data cache (services/data_fetcher.py) and    *)
(* of the batch fetch built on it.                                         *)
(*                                                                         *)
(* A cache entry is (timestamp, object).  The value an accessor returns is *)
(* either that very object (shared[w]) or an object of the thread's own    *)
(* (ret[w]): DataFrame.copy() and pickle make new objects.  A caller that  *)
(* writes into a shared object changes the cached entry.                   *)
(***************************************************************************)
EXTENDS Integers, Sequences, FiniteSets, TLC

\* ------------------------------------------------------------ constants
INFO_CACHE_DURATION == 300
HISTORY_CACHE_DURATION == 60

\* ------------------------------------------------------------ bounds
\* At most MaxCalls upstream calls are started by direct calls, and
\* fetch_stock_batch is called at most MaxBatches times.
MaxCalls == 2
MaxBatches == 1
\* The histories handed to the cross detectors have at most MaxBars bars.
MaxBars == 5
MaxOps == 3
\* What os.cpu_count() may return; 0 stands for None.
CpuCounts == {0, 1, 2}
\* The instants at which the clock is read: the ages 60 and 300 of an entry
\* written at 0 or at 60 are the two TTLs.
TimePoints == {0, 60, 300, 360}
\* The ticker symbols, in the order sorted() gives them, and the periods.
AllSymbols == <<"A", "B">>
Symbols == {AllSymbols[i] : i \in 1..Len(AllSymbols)}
Periods == {"1y"}
\* The symbols and lists of the direct calls of the accessors.
DirectSymbols == {"A"}
DirectLists == {<<"A", "B">>, <<"B", "A">>}
\* The lists and periods of the calls of fetch_stock_history_batch that
\* probe its key: the same symbols in both orders, a different set, and a
\* second period.
KeyLists == {<<"A", "B">>, <<"B", "A">>, <<"A">>}
KeyPeriods == {"1y", "6mo"}
\* Symbol lists passed to fetch_stock_batch.
SymbolLists == {<<"A">>, <<"A", "B">>, <<"B", "A">>}
\* The use_cache argument: every call site leaves it at its default.
UseCache == {TRUE}
\* Threads of the process; the threads in Callers call the accessors directly.
Threads == 1..3
Callers == 1..2

VARIABLES
    now,                  \* time.time()
    phase,                \* "import" | "loaded" | "running" | "exited"
    cache_lock,           \* 0, or the thread that owns _cache_lock
    info_cache,           \* symbol -> [ts, val]
    history_cache,        \* <<symbol, period>> -> [ts, val]
    batch_history_cache,  \* <<sorted symbols, period>> -> [ts, val]
    disk,                 \* the three pickle files under CACHE_DIR
    pc,                   \* per thread: where it is in its call
    call,                 \* per thread: the call it executes
    ret,                  \* per thread: the value its call returned, when its own
    shared,               \* per thread: the value returned is the cached object
    how,                  \* per thread: "hit" | "fetched" | "failed" | ""
    calls,                \* upstream calls started so far
    scope,                \* the accessor the direct calls of this run use
    batches,              \* calls of fetch_stock_batch so far
    bpc,                  \* fetch_stock_batch: where the calling thread is
    bargs,                \* fetch_stock_batch: [symbols, period, max_workers]
    queue,                \* executor: tasks submitted and not yet started
    task,                 \* per thread: the task it runs (-1: none)
    futures,              \* task -> its outcome, once finished
    info_data,            \* fetch_stock_batch: symbol -> metadata collected
    history_data,         \* fetch_stock_batch: the bulk frame
    results,              \* fetch_stock_batch: what it returned
    files,                \* the state of each pickle file: "ok" | "missing" | "empty" | "corrupt"
    fault,                \* what the file system refuses during save_cache_to_disk
    raised,               \* the function an exception has propagated out of ("": none)
    df,                   \* cross detection: the bars, with their DMA50 and DMA200 columns
    cross_pc,             \* cross detection: "off" | "input" | "done"
    cross_info,           \* analyze_stock: what detect_cross_age returned
    immediate_cross,      \* run: what cross_signal returned
    run_cross_info,       \* run: the cross_info passed to rating
    rating_pc,            \* rating: "off" | "input" | "done"
    rin,                  \* rating: its arguments
    rout,                 \* rating: [rating, rule], the rule being the line of the return
    fund_pc,              \* fundamental_score: "off" | "input" | "done"
    info_is_none,         \* fundamental_score: its argument is None
    company_info,         \* fundamental_score: its argument, key -> value
    fund_out,             \* fundamental_score: [raised, score]
    analyze_pc,           \* analyze_stock: "off" | "input" | "done"
    ain,                  \* analyze_stock: what it reads of the fetched data
    result,               \* analyze_stock: what it returns
    signal_pc,            \* signal mappers: "off" | "input" | "done"
    sin,                  \* signal mappers: the indicator values of the last bar
    sout,                 \* signal mappers: the categories returned
    wpc,                  \* watchlist caller: "off" | "idle" | the step it is at
    wop,                  \* watchlist caller: the call in progress, or the last one
    wlocal,               \* watchlist caller: the locals of add_symbols / remove_symbols
    wcalls,               \* watchlist caller: calls made
    wret,                 \* watchlist caller: what the last call returned
    watchlist_lock,       \* watchlist_manager._cache_lock: "" | its owner
    _watchlist_cache,     \* watchlist_manager._watchlist_cache (NoList: None)
    _pending_write,       \* watchlist_manager._pending_write: index in futures (0: None)
    wfutures,             \* the futures submitted to _executor, in order
    watchlist_file        \* WATCHLIST_FILE (NoList: absent)

cacheVars == <<info_cache, history_cache, batch_history_cache>>
threadVars == <<pc, call, ret, shared, how>>
batchVars == <<bpc, bargs, queue, task, futures, info_data, history_data, results>>
fetchVars == <<now, phase, cache_lock, info_cache, history_cache, batch_history_cache,
               disk, pc, call, ret, shared, how, calls, scope, batches, bpc, bargs, queue, task,
               futures, info_data, history_data, results>>
persistVars == <<files, fault, raised>>
crossVars == <<df, cross_pc, cross_info, immediate_cross, run_cross_info>>
ratingVars == <<rating_pc, rin, rout>>
fundVars == <<fund_pc, info_is_none, company_info, fund_out>>
analyzeVars == <<analyze_pc, ain, result>>
signalVars == <<signal_pc, sin, sout>>
watchVars ==
    <<wpc, wop, wlocal, wcalls, wret, watchlist_lock, _watchlist_cache, _pending_write,
      wfutures, watchlist_file>>
engineVars == <<crossVars, ratingVars, fundVars, analyzeVars, signalVars, watchVars>>
vars == <<now, phase, cache_lock, info_cache, history_cache, batch_history_cache,
          disk, pc, call, ret, shared, how, calls, scope, batches, bpc, bargs, queue, task,
          futures, info_data, history_data, results, persistVars, engineVars>>

\* ------------------------------------------------------------ values
\* The content of an object: a metadata record or a frame.  cols are the
\* ticker columns of a bulk frame, ver = 0 is the empty record / a frame
\* without rows, dirty says that a caller has written into the object.
Content(cols, ver) == [cols |-> cols, ver |-> ver, dirty |-> FALSE]
NoObj == [cols |-> {}, ver |-> -1, dirty |-> FALSE]
\* {} and pd.DataFrame()
EmptyValue == Content({}, 0)
\* bool(info) is False, DataFrame.empty is True
IsEmpty(c) == c.ver = 0
EmptyTable == [k \in {} |-> 0]
NoCall == [op |-> "", symbol |-> "", symbols |-> <<>>, period |-> "", use_cache |-> TRUE]

\* An entry at the very age of its TTL counts as valid.
ValidUpToTtl(timestamp, duration) == now - timestamp <= duration
\* time.time() - timestamp < duration
_is_cache_valid(timestamp, duration) == now - timestamp < duration

\* sorted(symbols): insertion of each symbol at its rank in AllSymbols
Rank(s) == CHOOSE i \in 1..Len(AllSymbols) : AllSymbols[i] = s
RECURSIVE Insert(_, _)
Insert(s, sq) ==
    IF sq = <<>> THEN <<s>>
    ELSE IF Rank(s) <= Rank(Head(sq)) THEN <<s>> \o sq
    ELSE <<Head(sq)>> \o Insert(s, Tail(sq))
\* The list as passed, not sorted.
unsorted(sq) == sq
RECURSIVE sorted(_)
sorted(sq) == IF sq = <<>> THEN <<>> ELSE Insert(Head(sq), sorted(Tail(sq)))
SetOf(sq) == {sq[i] : i \in 1..Len(sq)}

\* The key under which a call looks its table up.
cache_key(c) ==
    CASE c.op = "info" -> c.symbol
      [] c.op = "history" -> <<c.symbol, c.period>>
      [] c.op = "batch" -> <<sorted(c.symbols), c.period>>
\* The table of a call, and the TTL of its kind.
Table(c) ==
    CASE c.op = "info" -> info_cache
      [] c.op = "history" -> history_cache
      [] c.op = "batch" -> batch_history_cache
Duration(op) == IF op = "info" THEN INFO_CACHE_DURATION ELSE HISTORY_CACHE_DURATION

Put(t, k, e) == [x \in DOMAIN t \cup {k} |-> IF x = k THEN e ELSE t[x]]
AccessorOps == {"info", "history", "batch"}
\* Two calls address the same entry of the same table.
SameSlot(c1, c2) == c1.op \in AccessorOps /\ c1.op = c2.op /\ cache_key(c1) = cache_key(c2)
\* The entry of a call's key is in its table.
Cached(c) == c.op \in AccessorOps /\ cache_key(c) \in DOMAIN Table(c)
Entry(c) == Table(c)[cache_key(c)]

\* The value thread w holds: the cached object itself, or an object of its own.
Value(w) == IF shared[w] THEN Entry(call[w]).val ELSE ret[w]

\* A lookup that never finds an entry.
NeverHit(c) == FALSE
\* `use_cache and key in table` followed by `_is_cache_valid(timestamp, TTL)`
IsHit(c) ==
    /\ c.use_cache
    /\ cache_key(c) \in DOMAIN Table(c)
    /\ _is_cache_valid(Table(c)[cache_key(c)].ts, Duration(c.op))

\* What the upstream source may deliver for a call (when it does not raise).
UpstreamResults(c) ==
    CASE c.op = "info" -> {Content({}, v) : v \in 0..1}
      [] c.op = "history" -> {Content({}, v) : v \in 0..1}
      [] c.op = "batch" -> {Content(cs, IF cs = {} THEN 0 ELSE 1) : cs \in SUBSET SetOf(c.symbols)}
      [] OTHER -> {}

\* ------------------------------------------------------------ initial state
\* The files an earlier run left under CACHE_DIR: none, or the entries that
\* run fetched at time 0 and saved when it exited.
EarlierRuns ==
    {[info |-> i, history |-> h, batch |-> EmptyTable] :
        i \in {EmptyTable, [k \in {"A"} |-> [ts |-> 0, val |-> Content({}, 1)]]},
        h \in {EmptyTable, [k \in {<<"A", "1y">>} |-> [ts |-> 0, val |-> Content({}, 1)]]}}

\* The pickle files, and what can be found in their place.
FileNames == {"info", "history", "batch"}
FileStates == {"ok", "missing", "empty", "corrupt"}
\* What the file system may refuse while the caches are saved: nothing, the
\* creation of CACHE_DIR, or the writing of one of the files.
Faults == {"none", "mkdir", "write_info", "write_history", "write_batch"}

\* The module is being imported: the state of the cache and of the threads.
FetchInit ==
    /\ now = 0
    /\ phase = "import"
    /\ cache_lock = 0
    /\ info_cache = EmptyTable
    /\ history_cache = EmptyTable
    /\ batch_history_cache = EmptyTable
    /\ disk \in EarlierRuns
    /\ pc = [w \in Threads |-> "idle"]
    /\ call = [w \in Threads |-> NoCall]
    /\ ret = [w \in Threads |-> NoObj]
    /\ shared = [w \in Threads |-> FALSE]
    /\ how = [w \in Threads |-> ""]
    /\ calls = 0
    /\ scope \in AccessorOps
    /\ batches = 0
    /\ bpc = "idle"
    /\ bargs = [symbols |-> <<>>, period |-> "", max_workers |-> 0]
    /\ queue = <<>>
    /\ task = [w \in Threads |-> -1]
    /\ futures = EmptyTable
    /\ info_data = EmptyTable
    /\ history_data = EmptyValue
    /\ results = EmptyTable
    /\ raised = ""

\* float('nan') / None in a numeric column, and days_ago = None.
NaN == -1
NoDays == -1
\* Python's None where a number is expected, and a key a dict does not have.
PyNone == -2
Missing == -3
\* default_result of detect_cross_age (cross_price is left out of the model).
default_result == [type |-> "None", days_ago |-> NoDays]

\* Cross detection is not in use.
CrossIdle ==
    /\ df = <<>>
    /\ cross_pc = "off"
    /\ cross_info = default_result
    /\ immediate_cross = "None"
    /\ run_cross_info = default_result
\* rating has not returned.
NoRating == [rating |-> "", rule |-> 0]
\* rating called with nothing known.
NoInput ==
    [price |-> 0, dma50 |-> 0, dma200 |-> 0, fscore |-> 0, cross_info |-> default_result,
     rsi |-> NaN, macd_signal |-> "None", volume_signal |-> "None", bb_signal |-> "None",
     supertrend_signal |-> "None", adx_signal |-> "None"]
RatingIdle ==
    /\ rating_pc = "off"
    /\ rin = NoInput
    /\ rout = NoRating
\* The eight keys fundamental_score reads.
InfoKeys ==
    {"returnOnEquity", "debtToEquity", "revenueGrowth", "profitMargins",
     "heldPercentInsiders", "priceToBook", "dividendYield", "operatingMargins"}
NoScore == [raised |-> "", score |-> 0]
FundIdle ==
    /\ fund_pc = "off"
    /\ info_is_none = FALSE
    /\ company_info = [k \in InfoKeys |-> Missing]
    /\ fund_out = NoScore
\* analyze_stock returned None.
NoResult == [returned |-> "None", price |-> 0, dma50 |-> 0, dma200 |-> 0, rating |-> ""]
\* No data.
NoData ==
    [bars |-> 0, sma_short |-> "none", Close |-> PyNone, mean50 |-> PyNone, mean200 |-> PyNone,
     fscore |-> 0, macd_signal |-> "None", volume_signal |-> "None",
     cross_info |-> default_result]
AnalyzeIdle ==
    /\ analyze_pc = "off"
    /\ ain = NoData
    /\ result = NoResult
\* No indicator value, and no category.
NoIndicators ==
    [RSI |-> PyNone, MACD |-> PyNone, MACD_Signal |-> PyNone, MACD_Hist |-> PyNone,
     Volume_Ratio |-> PyNone, BB_Position |-> PyNone, ADX |-> PyNone]
NoSignals ==
    [rsi_signal |-> "None", macd_signal |-> "None", volume_signal |-> "None",
     bb_signal |-> "None", adx_signal |-> "None"]
SignalIdle ==
    /\ signal_pc = "off"
    /\ sin = NoIndicators
    /\ sout = NoSignals
\* No list: None in memory, no file on disk.
NoList == <<"None">>
NoOp == [op |-> "", symbols |-> <<>>]
NoLocals == [before |-> <<>>, watchlist |-> <<>>, changed |-> <<>>]
WatchFresh ==
    /\ wop = NoOp
    /\ wlocal = NoLocals
    /\ wcalls = 0
    /\ wret = <<>>
    /\ watchlist_lock = ""
    /\ _watchlist_cache = NoList
    /\ _pending_write = 0
    /\ wfutures = <<>>
WatchIdle ==
    /\ wpc = "off"
    /\ WatchFresh
    /\ watchlist_file = NoList
\* The analysis functions are not in use.
EngineIdle == CrossIdle /\ RatingIdle /\ FundIdle /\ AnalyzeIdle /\ SignalIdle /\ WatchIdle

\* A run whose cache files are intact and whose file system refuses nothing.
Init ==
    /\ FetchInit
    /\ files = [f \in FileNames |-> "ok"]
    /\ fault = "none"
    /\ EngineIdle

\* ------------------------------------------------------------ the clock
Tick(t) ==
    /\ t > now
    /\ now' = t
    /\ UNCHANGED <<phase, cache_lock, cacheVars, disk, threadVars, calls, scope, batches, batchVars>>
    /\ UNCHANGED <<persistVars, engineVars>>

\* ------------------------------------------------------------ accessors
\* The calls a thread makes directly.
Calls ==
    {[op |-> "info", symbol |-> s, symbols |-> <<>>, period |-> "", use_cache |-> u] :
        s \in DirectSymbols, u \in UseCache}
    \cup {[op |-> "history", symbol |-> s, symbols |-> <<>>, period |-> p, use_cache |-> u] :
        s \in DirectSymbols, p \in Periods, u \in UseCache}
    \cup {[op |-> "batch", symbol |-> "", symbols |-> l, period |-> p, use_cache |-> u] :
        l \in DirectLists, p \in Periods, u \in UseCache}
    \cup {[op |-> o, symbol |-> "", symbols |-> <<>>, period |-> "", use_cache |-> TRUE] :
        o \in {"sweep", "clear"}}

KeyCalls ==
    {[op |-> "batch", symbol |-> "", symbols |-> l, period |-> p, use_cache |-> u] :
        l \in KeyLists, p \in KeyPeriods, u \in UseCache}

\* Calls that have started and have not yet made their upstream call.
Starting == {w \in Threads : pc[w] = "lookup"}

\* A thread calls fetch_stock_info, fetch_stock_history, fetch_stock_history_batch,
\* clear_expired_cache or clear_cache.
Call(w, c) ==
    /\ phase = "running"
    /\ bpc = "idle"
    /\ w \in Callers
    /\ pc[w] = "idle"
    /\ c.op \in {scope, "sweep", "clear"}
    /\ c.op \in AccessorOps => calls + Cardinality(Starting) < MaxCalls
    /\ pc' = [pc EXCEPT ![w] = "lookup"]
    /\ call' = [call EXCEPT ![w] = c]
    /\ UNCHANGED <<now, phase, cache_lock, cacheVars, disk, ret, shared, how, calls, scope, batches, batchVars>>
    /\ UNCHANGED <<persistVars, engineVars>>

\* A hit of fetch_stock_info returns the cached dict itself.
\* A hit of the history accessors returns hist.copy().
HitReturnsCopy(op) == op \in {"history", "batch"}

\* The lock is kept across the upstream call.
KeptOnMiss(w) == w
\* `with _cache_lock:` is left before the upstream call
ReleasedOnMiss(w) == 0

\* The first `with _cache_lock:` block of an accessor, entered when the lock
\* is free and left within the step: the lookup.  A hit returns, a miss goes
\* on to the upstream call.
CheckCache(w) ==
    /\ pc[w] = "lookup"
    /\ cache_lock = 0
    /\ call[w].op \in AccessorOps
    /\ IF IsHit(call[w])
       THEN /\ pc' = [pc EXCEPT ![w] = "done"]
            /\ how' = [how EXCEPT ![w] = "hit"]
            /\ IF HitReturnsCopy(call[w].op)
               THEN /\ ret' = [ret EXCEPT ![w] = Entry(call[w]).val]
                    /\ shared' = shared
               ELSE /\ ret' = ret
                    /\ shared' = [shared EXCEPT ![w] = TRUE]
            /\ calls' = calls
            /\ cache_lock' = 0
       ELSE /\ pc' = [pc EXCEPT ![w] = "upstream"]
            /\ calls' = calls + 1
            /\ cache_lock' = ReleasedOnMiss(w)
            /\ UNCHANGED <<ret, shared, how>>
    /\ UNCHANGED <<now, phase, cacheVars, disk, call, scope, batches, batchVars>>
    /\ UNCHANGED <<persistVars, engineVars>>

\* The threads in D held the object of an entry that is being replaced or
\* removed: each keeps that object, which is now its own.
DetachedRet(D) == [v \in Threads |-> IF v \in D THEN Entry(call[v]).val ELSE ret[v]]
DetachedShared(D) == [v \in Threads |-> shared[v] /\ v \notin D]
\* The threads that hold the object of the entry call c addresses.
Holders(c) == {v \in Threads : shared[v] /\ SameSlot(call[v], c)}

\* The tables after `table[key] = e` of call c.
Stored(c, e) ==
    [info |-> IF c.op = "info" THEN Put(info_cache, cache_key(c), e) ELSE info_cache,
     history |-> IF c.op = "history" THEN Put(history_cache, cache_key(c), e) ELSE history_cache,
     batch |-> IF c.op = "batch" THEN Put(batch_history_cache, cache_key(c), e)
               ELSE batch_history_cache]

\* The upstream call (ticker.info, ticker.history, yf.download) returns d, and
\* the second `with _cache_lock:` block stores (time.time(), d); the accessor
\* returns the very object it stored.  Nothing another thread can see happens
\* between the return of the upstream call and the block.
UpstreamReturn(w, d) ==
    /\ pc[w] = "upstream"
    /\ d \in UpstreamResults(call[w])
    /\ cache_lock = 0
    /\ LET t == Stored(call[w], [ts |-> now, val |-> d])
       IN  /\ info_cache' = t.info
           /\ history_cache' = t.history
           /\ batch_history_cache' = t.batch
    /\ ret' = DetachedRet(Holders(call[w]))
    /\ shared' = [DetachedShared(Holders(call[w])) EXCEPT ![w] = TRUE]
    /\ pc' = [pc EXCEPT ![w] = "done"]
    /\ how' = [how EXCEPT ![w] = "fetched"]
    /\ UNCHANGED <<now, phase, cache_lock, disk, call, calls, scope, batches, batchVars>>
    /\ UNCHANGED <<persistVars, engineVars>>

\* A failed call that stores the empty value it returns.
UpstreamFailStoresEmpty(w) ==
    /\ pc[w] = "upstream"
    /\ cache_lock = 0
    /\ LET t == Stored(call[w], [ts |-> now, val |-> EmptyValue])
       IN  /\ info_cache' = t.info
           /\ history_cache' = t.history
           /\ batch_history_cache' = t.batch
    /\ ret' = DetachedRet(Holders(call[w]))
    /\ shared' = [DetachedShared(Holders(call[w])) EXCEPT ![w] = TRUE]
    /\ pc' = [pc EXCEPT ![w] = "done"]
    /\ how' = [how EXCEPT ![w] = "failed"]
    /\ UNCHANGED <<now, phase, cache_lock, disk, call, calls, scope, batches, batchVars>>
    /\ UNCHANGED <<persistVars, engineVars>>
\* The upstream call raises: `except Exception` returns (symbol, {}) or
\* pd.DataFrame(), a new empty object, and writes nothing.
UpstreamFail(w) ==
    /\ pc[w] = "upstream"
    /\ ret' = [ret EXCEPT ![w] = EmptyValue]
    /\ pc' = [pc EXCEPT ![w] = "done"]
    /\ how' = [how EXCEPT ![w] = "failed"]
    /\ UNCHANGED <<now, phase, cache_lock, cacheVars, disk, call, shared, calls, scope, batches, batchVars>>
    /\ UNCHANGED <<persistVars, engineVars>>

\* The upstream call never returns; nothing in the accessor bounds it.
UpstreamHang(w) ==
    /\ pc[w] = "upstream"
    /\ pc' = [pc EXCEPT ![w] = "hung"]
    /\ UNCHANGED <<now, phase, cache_lock, cacheVars, disk, call, ret, shared, how, calls, scope, batches, batchVars>>
    /\ UNCHANGED <<persistVars, engineVars>>

\* The entry of c with the object written into by a caller.
Dirtied(t, c) == [t EXCEPT ![cache_key(c)].val.dirty = TRUE]

\* The caller uses the value and drops it; with m it first writes into the
\* object it was given (add_dma and the other indicator functions add columns
\* to the frame they receive), which is seen by whoever else holds the object.
Return(w, m) ==
    /\ w \in Callers
    /\ pc[w] = "done"
    /\ task[w] = -1
    /\ m => call[w].op \in AccessorOps
    /\ LET c == call[w]
           hit == m /\ shared[w]
       IN  /\ info_cache' = IF hit /\ c.op = "info" THEN Dirtied(info_cache, c) ELSE info_cache
           /\ history_cache' = IF hit /\ c.op = "history" THEN Dirtied(history_cache, c)
                               ELSE history_cache
           /\ batch_history_cache' = IF hit /\ c.op = "batch" THEN Dirtied(batch_history_cache, c)
                                     ELSE batch_history_cache
    /\ pc' = [pc EXCEPT ![w] = "idle"]
    /\ call' = [call EXCEPT ![w] = NoCall]
    /\ ret' = [ret EXCEPT ![w] = NoObj]
    /\ shared' = [shared EXCEPT ![w] = FALSE]
    /\ how' = [how EXCEPT ![w] = ""]
    /\ UNCHANGED <<now, phase, cache_lock, disk, calls, scope, batches, batchVars>>
    /\ UNCHANGED <<persistVars, engineVars>>

\* ------------------------------------------------------------ sweep, clear
\* A sweep that keeps every entry.
KeepAll(t, duration) == t
\* {k: v for k, v in table.items() if _is_cache_valid(v[0], TTL)}
\* Every table swept with the TTL of the metadata.
SweptByInfoTtl(t, duration) ==
    [k \in {x \in DOMAIN t : _is_cache_valid(t[x].ts, INFO_CACHE_DURATION)} |-> t[k]]
Swept(t, duration) ==
    [k \in {x \in DOMAIN t : _is_cache_valid(t[x].ts, duration)} |-> t[k]]

\* The threads that hold the object of an entry the sweep removes.
SweptHolders ==
    {v \in Threads : shared[v] /\ cache_key(call[v]) \notin
        DOMAIN Swept(Table(call[v]), Duration(call[v].op))}

\* clear_expired_cache's `with _cache_lock:` block
clear_expired_cache(w) ==
    /\ pc[w] = "lookup"
    /\ cache_lock = 0
    /\ call[w].op = "sweep"
    /\ info_cache' = Swept(info_cache, INFO_CACHE_DURATION)
    /\ history_cache' = Swept(history_cache, HISTORY_CACHE_DURATION)
    /\ batch_history_cache' = Swept(batch_history_cache, HISTORY_CACHE_DURATION)
    /\ ret' = DetachedRet(SweptHolders)
    /\ shared' = DetachedShared(SweptHolders)
    /\ pc' = [pc EXCEPT ![w] = "done"]
    /\ UNCHANGED <<now, phase, cache_lock, disk, call, how, calls, scope, batches, batchVars>>
    /\ UNCHANGED <<persistVars, engineVars>>

\* clear_cache's `with _cache_lock:` block
clear_cache(w) ==
    /\ pc[w] = "lookup"
    /\ cache_lock = 0
    /\ call[w].op = "clear"
    /\ info_cache' = EmptyTable
    /\ history_cache' = EmptyTable
    /\ batch_history_cache' = EmptyTable
    /\ ret' = DetachedRet({v \in Threads : shared[v]})
    /\ shared' = [v \in Threads |-> FALSE]
    /\ pc' = [pc EXCEPT ![w] = "done"]
    /\ UNCHANGED <<now, phase, cache_lock, disk, call, how, calls, scope, batches, batchVars>>
    /\ UNCHANGED <<persistVars, engineVars>>

\* ------------------------------------------------------------ persistence
\* Threads at rest: no call in progress, no value held.
AllIdle == \A w \in Threads : pc[w] = "idle"

\* _load_disk_cache: {} when the file does not exist, {} when open() or
\* pickle.load raises (an empty file: EOFError, a corrupt one:
\* UnpicklingError), the pickled table otherwise.
_load_disk_cache(f) == IF files[f] = "ok" THEN disk[f] ELSE EmptyTable

\* load_cache_from_disk, first part: pickle.load of the three files under the
\* lock.  The objects it creates are new: no thread holds one.
LoadTables ==
    /\ phase = "import"
    /\ cache_lock = 0
    /\ info_cache' = _load_disk_cache("info")
    /\ history_cache' = _load_disk_cache("history")
    /\ batch_history_cache' = _load_disk_cache("batch")
    /\ phase' = "loaded"
    /\ UNCHANGED <<now, cache_lock, disk, threadVars, calls, scope, batches, batchVars>>
    /\ UNCHANGED <<persistVars, engineVars>>

\* load_cache_from_disk, second part: clear_expired_cache()
SweepAfterLoad ==
    /\ phase = "loaded"
    /\ cache_lock = 0
    /\ info_cache' = Swept(info_cache, INFO_CACHE_DURATION)
    /\ history_cache' = Swept(history_cache, HISTORY_CACHE_DURATION)
    /\ batch_history_cache' = Swept(batch_history_cache, HISTORY_CACHE_DURATION)
    /\ phase' = "running"
    /\ UNCHANGED <<now, cache_lock, disk, threadVars, calls, scope, batches, batchVars>>
    /\ UNCHANGED <<persistVars, engineVars>>

\* The interpreter exits: atexit runs save_cache_to_disk, which pickles the
\* three tables under the lock.
save_cache_to_disk ==
    /\ phase = "running"
    /\ bpc = "idle"
    /\ AllIdle
    /\ cache_lock = 0
    /\ fault = "none"
    /\ disk' = [info |-> info_cache, history |-> history_cache, batch |-> batch_history_cache]
    /\ files' = [f \in FileNames |-> "ok"]
    /\ phase' = "exited"
    /\ UNCHANGED <<now, cache_lock, cacheVars, threadVars, calls, scope, batches, batchVars>>
    /\ UNCHANGED <<fault, raised, engineVars>>

\* save_cache_to_disk when CACHE_DIR cannot be created: ensure_cache_dir() is
\* called outside any try block, so mkdir's OSError leaves save_cache_to_disk
\* and nothing is written.
SaveDirFail ==
    /\ phase = "running"
    /\ bpc = "idle"
    /\ AllIdle
    /\ cache_lock = 0
    /\ fault = "mkdir"
    /\ raised' = "save_cache_to_disk"
    /\ phase' = "exited"
    /\ UNCHANGED <<now, cache_lock, cacheVars, disk, threadVars, calls, scope, batches, batchVars>>
    /\ UNCHANGED <<files, fault, engineVars>>

\* The table that is written to file f.
TableOf(f) ==
    CASE f = "info" -> info_cache
      [] f = "history" -> history_cache
      [] f = "batch" -> batch_history_cache
\* The file whose writing the fault refuses.
Refused == CASE fault = "write_info" -> "info"
             [] fault = "write_history" -> "history"
             [] fault = "write_batch" -> "batch"
             [] OTHER -> ""

\* save_cache_to_disk when open() or pickle.dump raises for one file:
\* _save_disk_cache prints the error and returns, the other files are
\* written.  The refused file is left as it was (left = "kept"), or cut
\* short by the failed write.
SaveWriteFail(left) ==
    /\ phase = "running"
    /\ bpc = "idle"
    /\ AllIdle
    /\ cache_lock = 0
    /\ Refused # ""
    /\ disk' = [f \in FileNames |-> IF f = Refused THEN disk[f] ELSE TableOf(f)]
    /\ files' = [f \in FileNames |->
                    IF f # Refused THEN "ok" ELSE IF left = "kept" THEN files[f] ELSE left]
    /\ phase' = "exited"
    /\ UNCHANGED <<now, cache_lock, cacheVars, threadVars, calls, scope, batches, batchVars>>
    /\ UNCHANGED <<fault, raised, engineVars>>

\* ------------------------------------------------------------ fetch_stock_batch
Min(a, b) == IF a <= b THEN a ELSE b
\* min((os.cpu_count() or 4), len(symbols) + 1)
max_workers(cpu, symbols) == Min(IF cpu = 0 THEN 4 ELSE cpu, Len(symbols) + 1)

\* Task 0 is fetch_stock_history_batch(symbols, period), task i is
\* fetch_stock_info(symbols[i]).
TaskCall(i) ==
    IF i = 0
    THEN [op |-> "batch", symbol |-> "", symbols |-> bargs.symbols, period |-> bargs.period,
          use_cache |-> TRUE]
    ELSE [op |-> "info", symbol |-> bargs.symbols[i], symbols |-> <<>>, period |-> "",
          use_cache |-> TRUE]
InfoTasks == 1..Len(bargs.symbols)

\* Phase 1: the executor is created and the bulk download and the metadata
\* fetches are submitted, in this order.
StartBatch(symbols, period, cpu) ==
    /\ phase = "running"
    /\ bpc = "idle"
    /\ AllIdle
    /\ batches < MaxBatches
    /\ batches' = batches + 1
    /\ bargs' = [symbols |-> symbols, period |-> period,
                 max_workers |-> max_workers(cpu, symbols)]
    /\ queue' = [i \in 1..(Len(symbols) + 1) |-> i - 1]
    /\ futures' = EmptyTable
    /\ info_data' = EmptyTable
    /\ history_data' = EmptyValue
    /\ results' = EmptyTable
    /\ bpc' = "collect_info"
    /\ UNCHANGED <<now, phase, cache_lock, cacheVars, disk, threadVars, calls, scope, task>>
    /\ UNCHANGED <<persistVars, engineVars>>

\* A free thread of the pool starts the oldest task of the queue.
TakeTask(w) ==
    /\ bpc # "idle"
    /\ w <= bargs.max_workers
    /\ pc[w] = "idle"
    /\ queue # <<>>
    /\ task' = [task EXCEPT ![w] = Head(queue)]
    /\ call' = [call EXCEPT ![w] = TaskCall(Head(queue))]
    /\ pc' = [pc EXCEPT ![w] = "lookup"]
    /\ queue' = Tail(queue)
    /\ UNCHANGED <<now, phase, cache_lock, cacheVars, disk, ret, shared, how, calls, scope,
                   batches, bpc, bargs, futures, info_data, history_data, results>>
    /\ UNCHANGED <<persistVars, engineVars>>

\* The task's function has returned: its future holds the value.
FinishTask(w) ==
    /\ pc[w] = "done"
    /\ task[w] # -1
    /\ futures' = Put(futures, task[w], [val |-> Value(w), how |-> how[w]])
    /\ task' = [task EXCEPT ![w] = -1]
    /\ pc' = [pc EXCEPT ![w] = "idle"]
    /\ call' = [call EXCEPT ![w] = NoCall]
    /\ ret' = [ret EXCEPT ![w] = NoObj]
    /\ shared' = [shared EXCEPT ![w] = FALSE]
    /\ how' = [how EXCEPT ![w] = ""]
    /\ UNCHANGED <<now, phase, cache_lock, cacheVars, disk, calls, scope, batches, bpc, bargs,
                   queue, info_data, history_data, results>>
    /\ UNCHANGED <<persistVars, engineVars>>

\* The metadata collected from the futures fs of the symbols: `if info:`
\* keeps the records that are not empty.
Collected(symbols, fs) ==
    [s \in {symbols[i] : i \in {j \in 1..Len(symbols) : ~IsEmpty(fs[j].val)}} |->
        fs[CHOOSE i \in 1..Len(symbols) : symbols[i] = s /\ ~IsEmpty(fs[i].val)].val]

\* Phase 2, first loop: `for future in as_completed(future_to_symbol)`.  The
\* loop ends when every metadata future is done; what it collects does not
\* depend on the order in which they finish.
CollectInfo ==
    /\ bpc = "collect_info"
    /\ InfoTasks \subseteq DOMAIN futures
    /\ info_data' = Collected(bargs.symbols, futures)
    /\ bpc' = "await_history"
    /\ UNCHANGED <<now, phase, cache_lock, cacheVars, disk, threadVars, calls, scope, batches,
                   bargs, queue, task, futures, history_data, results>>
    /\ UNCHANGED <<persistVars, engineVars>>

\* history_data if len(symbols) == 1 else history_data[symbol], an empty
\* frame when history_data is empty or has no column for the symbol
Slice(frame, symbols, symbol) ==
    IF IsEmpty(frame) THEN EmptyValue
    ELSE IF Len(symbols) = 1 THEN frame
    ELSE IF symbol \in frame.cols THEN [frame EXCEPT !.cols = {symbol}]
    ELSE EmptyValue

\* Phase 3 with the `df.empty and symbol not in info_data` test dropped.
MergedKeepingAll(symbols, frame, infos) ==
    [s \in SetOf(symbols) |->
        [df |-> Slice(frame, symbols, s),
         info |-> IF s \in DOMAIN infos THEN infos[s] ELSE EmptyValue]]
\* Phase 3 with the symbols that have no metadata dropped.
MergedNeedingInfo(symbols, frame, infos) ==
    [s \in SetOf(symbols) \cap DOMAIN infos |->
        [df |-> Slice(frame, symbols, s), info |-> infos[s]]]
\* Phase 3 with the symbols that have no history dropped.
MergedNeedingHistory(symbols, frame, infos) ==
    [s \in {x \in SetOf(symbols) : ~IsEmpty(Slice(frame, symbols, x))} |->
        [df |-> Slice(frame, symbols, s),
         info |-> IF s \in DOMAIN infos THEN infos[s] ELSE EmptyValue]]
\* Phase 3: every requested symbol that has a slice or metadata is paired
\* with its slice and with info_data.get(symbol, {}).
Merged(symbols, frame, infos) ==
    [s \in {x \in SetOf(symbols) : ~(IsEmpty(Slice(frame, symbols, x)) /\ x \notin DOMAIN infos)} |->
        [df |-> Slice(frame, symbols, s),
         info |-> IF s \in DOMAIN infos THEN infos[s] ELSE EmptyValue]]

\* Phase 2, the end: future_history.result(), then the executor is shut down
\* (every task is done by now); phase 3 merges and the function returns.
CollectHistory ==
    /\ bpc = "await_history"
    /\ 0 \in DOMAIN futures
    /\ history_data' = futures[0].val
    /\ results' = Merged(bargs.symbols, futures[0].val, info_data)
    /\ bpc' = "returned"
    /\ UNCHANGED <<now, phase, cache_lock, cacheVars, disk, threadVars, calls, scope, batches,
                   bargs, queue, task, futures, info_data>>
    /\ UNCHANGED <<persistVars, engineVars>>

\* The caller has used the mapping; the locals of the call are gone.
BatchReturn ==
    /\ bpc = "returned"
    /\ bpc' = "idle"
    /\ bargs' = [symbols |-> <<>>, period |-> "", max_workers |-> 0]
    /\ futures' = EmptyTable
    /\ info_data' = EmptyTable
    /\ history_data' = EmptyValue
    /\ results' = EmptyTable
    /\ UNCHANGED <<now, phase, cache_lock, cacheVars, disk, threadVars, calls, scope, batches,
                   queue, task>>
    /\ UNCHANGED <<persistVars, engineVars>>

\* ------------------------------------------------------------ cross detection
\* The values of the two averages at a bar, and the days between two bars
\* (a weekend makes 3).
ShortValues == {1, 2, 3}
LongValues == {2}
Gaps == {1, 3}

\* pd.isna
IsNa(x) == x = NaN
\* df.dropna(subset=["DMA50", "DMA200"])
dropna(d) == SelectSeq(d, LAMBDA b : ~IsNa(b.DMA50) /\ ~IsNa(b.DMA200))
\* The "signal" column: 1 where DMA50 > DMA200, -1 where DMA50 < DMA200, else 0.
signal(b) == IF b.DMA50 > b.DMA200 THEN 1 ELSE IF b.DMA50 < b.DMA200 THEN -1 ELSE 0
\* The "cross" column, signal.diff(): NaN in the first row, which is neither
\* > 0 nor < 0.
golden_crosses(v) == {i \in 2..Len(v) : signal(v[i]) - signal(v[i - 1]) > 0}
death_crosses(v) == {i \in 2..Len(v) : signal(v[i]) - signal(v[i - 1]) < 0}
\* rows.index[0]: the oldest row.
oldest(rows) == IF rows = {} THEN 0 ELSE CHOOSE i \in rows : \A j \in rows : i <= j
\* rows.index[-1] if len(rows) > 0 else None, as a row number (0: None)
most_recent(rows) == IF rows = {} THEN 0 ELSE CHOOSE i \in rows : \A j \in rows : j <= i

\* The age counted in bars.
BarsAgo(v, i) == Len(v) - i
\* (latest_date - cross_date).days
days_ago(v, i) == v[Len(v)].date - v[i].date

\* The golden cross whenever there is one.
PickGoldenFirst(v, g, d) ==
    IF g # 0 THEN [type |-> "GOLDEN_CROSS", row |-> g] ELSE [type |-> "DEATH_CROSS", row |-> d]
\* The if / elif / else on most_recent_golden and most_recent_death: both
\* are timestamps (always true) or None.
PickCross(v, g, d) ==
    IF g # 0 /\ d # 0
    THEN IF v[g].date > v[d].date
         THEN [type |-> "GOLDEN_CROSS", row |-> g]
         ELSE [type |-> "DEATH_CROSS", row |-> d]
    ELSE IF g # 0 THEN [type |-> "GOLDEN_CROSS", row |-> g]
    ELSE [type |-> "DEATH_CROSS", row |-> d]

detect_cross_age(d) ==
    IF Len(d) < 2 THEN default_result
    ELSE IF (\A i \in 1..Len(d) : IsNa(d[i].DMA50)) \/ (\A i \in 1..Len(d) : IsNa(d[i].DMA200))
    THEN default_result
    ELSE LET valid_df == dropna(d)
             most_recent_golden == most_recent(golden_crosses(valid_df))
             most_recent_death == most_recent(death_crosses(valid_df))
         IN  IF Len(valid_df) < 2 THEN default_result
             ELSE IF most_recent_golden = 0 /\ most_recent_death = 0 THEN default_result
             ELSE LET c == PickCross(valid_df, most_recent_golden, most_recent_death)
                  IN  [type |-> c.type, days_ago |-> days_ago(valid_df, c.row)]

cross_signal(d) ==
    IF Len(d) < 2 THEN "None"
    ELSE LET valid_df == dropna(d)
         IN  IF Len(valid_df) < 2 THEN "None"
             ELSE LET prev == valid_df[Len(valid_df) - 1]
                      curr == valid_df[Len(valid_df)]
                  IN  IF prev.DMA50 < prev.DMA200 /\ curr.DMA50 > curr.DMA200 THEN "GOLDEN_CROSS"
                      ELSE IF prev.DMA50 > prev.DMA200 /\ curr.DMA50 < curr.DMA200
                      THEN "DEATH_CROSS"
                      ELSE "None"

\* run: `if immediate_cross:` overwrites type and days_ago of cross_info.
Override(info, immediate) ==
    IF immediate # "None" THEN [type |-> immediate, days_ago |-> 0] ELSE info

\* The next bar of the history.  A rolling mean is undefined in the first
\* bars only, and the long window is undefined wherever the short one is.
AddBar(gap, short, long) ==
    /\ cross_pc = "input"
    /\ Len(df) < MaxBars
    /\ IsNa(short) => IsNa(long)
    /\ df # <<>> => /\ (~IsNa(df[Len(df)].DMA50) => ~IsNa(short))
                     /\ (~IsNa(df[Len(df)].DMA200) => ~IsNa(long))
    /\ df' = Append(df, [date |-> IF df = <<>> THEN 0 ELSE df[Len(df)].date + gap,
                          DMA50 |-> short, DMA200 |-> long])
    /\ UNCHANGED <<cross_pc, cross_info, immediate_cross, run_cross_info>>
    /\ UNCHANGED <<fetchVars, persistVars, ratingVars, fundVars, analyzeVars, signalVars, watchVars>>

\* analyze_stock calls detect_cross_age; run calls detect_cross_age and
\* cross_signal and overrides the former with the latter.
Detect ==
    /\ cross_pc = "input"
    /\ cross_info' = detect_cross_age(df)
    /\ immediate_cross' = cross_signal(df)
    /\ run_cross_info' = Override(detect_cross_age(df), cross_signal(df))
    /\ cross_pc' = "done"
    /\ UNCHANGED <<df>>
    /\ UNCHANGED <<fetchVars, persistVars, ratingVars, fundVars, analyzeVars, signalVars, watchVars>>

\* ------------------------------------------------------------ rating
\* The arguments of rating.  (price, dma50, dma200) as passed: the last
\* triple has no long average.
PriceTriples ==
    {<<110, 100, 90>>, <<110, 100, 120>>, <<95, 100, 90>>, <<80, 90, 100>>, <<110, 100, PyNone>>}
\* safe_float(value, default): float(None) raises, a NaN and a number pass.
safe_float(value, default) == IF value = PyNone THEN default ELSE value
\* The null safety of l.101-104: price, dma50 and dma200 through safe_float,
\* whose default is 0.0.
Normalised(in) ==
    [in EXCEPT !.price = safe_float(@, 0),
               !.dma50 = safe_float(@, 0),
               !.dma200 = safe_float(@, 0)]
Fscores == 0..12
CrossEvents ==
    {default_result}
    \cup {[type |-> "DEATH_CROSS", days_ago |-> d] : d \in {3, 15, 16, 30, 31}}
    \cup {[type |-> "GOLDEN_CROSS", days_ago |-> d] : d \in {5, 10, 11, 30, 31, 60, 61, 91}}
RsiValues == {NaN, 20, 32, 50, 75}
MacdSignals == {"None", "BULLISH", "NEUTRAL", "BEARISH"}
VolumeSignals == {"None", "HIGH", "NORMAL", "LOW"}
BbSignals == {"None", "OVERSOLD", "NEUTRAL"}
SupertrendSignals == {"None", "BULLISH", "BEARISH"}
AdxSignals == {"None", "STRONG_TREND"}
\* a > b on floats: false when either is NaN
Gt(a, b) == ~IsNa(a) /\ ~IsNa(b) /\ a > b
\* DMA alignment, 0 to 3 points
dma_points(in) ==
    IF Gt(in.price, 0) /\ Gt(in.dma50, 0) /\ Gt(in.dma200, 0)
    THEN IF Gt(in.price, in.dma50) /\ Gt(in.dma50, in.dma200) THEN 3
         ELSE IF Gt(in.price, in.dma50) THEN 2
         ELSE IF Gt(in.price, in.dma200) THEN 1
         ELSE 0
    ELSE 0
\* rsi_value = safe_float(rsi, None): None for None; every comparison with
\* NaN is false.  sector_multiplier is 1.0: the thresholds are 30, 35, 65, 70.
rsi_points(in) ==
    IF IsNa(in.rsi) THEN 0
    ELSE IF 35 <= in.rsi /\ in.rsi <= 65 THEN 2
    ELSE IF 30 <= in.rsi /\ in.rsi < 35 THEN 1
    ELSE IF 65 < in.rsi /\ in.rsi <= 70 THEN 1
    ELSE 0
rsi_extreme(in) ==
    IF IsNa(in.rsi) THEN "None"
    ELSE IF 35 <= in.rsi /\ in.rsi <= 65 THEN "None"
    ELSE IF 30 <= in.rsi /\ in.rsi < 35 THEN "oversold"
    ELSE IF 65 < in.rsi /\ in.rsi <= 70 THEN "None"
    ELSE IF in.rsi < 30 THEN "very_oversold"
    ELSE IF in.rsi > 70 THEN "very_overbought"
    ELSE "None"
tech_score(in) ==
    dma_points(in) + rsi_points(in)
    + (IF in.macd_signal = "BULLISH" THEN 2 ELSE IF in.macd_signal = "NEUTRAL" THEN 1 ELSE 0)
    + (IF in.volume_signal = "HIGH" THEN 3 ELSE IF in.volume_signal = "NORMAL" THEN 2
       ELSE IF in.volume_signal = "LOW" THEN 1 ELSE 0)
    + (IF in.bb_signal = "OVERSOLD" THEN 2 ELSE IF in.bb_signal = "NEUTRAL" THEN 1 ELSE 0)
    + (IF in.supertrend_signal = "BULLISH" THEN 2 ELSE 0)
    + (IF in.adx_signal = "STRONG_TREND" THEN 1 ELSE 0)
\* Twice combined_score = fscore * 1.5 + tech_score, to stay within the
\* integers: combined_score >= 17 is combined_x2 >= 2 * 17.
combined_x2(in) == 3 * in.fscore + 2 * tech_score(in)
bullish_count(in) ==
    (IF in.macd_signal = "BULLISH" THEN 1 ELSE 0)
    + (IF in.supertrend_signal = "BULLISH" THEN 1 ELSE 0)
    + (IF in.bb_signal = "OVERSOLD" THEN 1 ELSE 0)
    + (IF in.volume_signal = "HIGH" THEN 1 ELSE 0)
    + (IF in.adx_signal = "STRONG_TREND" THEN 1 ELSE 0)
\* cross_type == t and days_ago is not None
Cross(in, t) == in.cross_info.type = t /\ in.cross_info.days_ago # NoDays

\* Each `if` of the cascade, named by the line of its test: the rating it
\* returns, or "" when the cascade goes on.
\* A death cross that needs both confirmations for STRONG SELL.
DeathNeedsBoth(in) ==
    IF Cross(in, "DEATH_CROSS") /\ in.cross_info.days_ago <= 15
    THEN IF in.macd_signal = "BEARISH" /\ in.volume_signal = "HIGH" THEN "STRONG SELL" ELSE "SELL"
    ELSE ""
if_206(in) ==
    IF Cross(in, "DEATH_CROSS") /\ in.cross_info.days_ago <= 15
    THEN IF in.macd_signal = "BEARISH" \/ in.volume_signal = "HIGH" THEN "STRONG SELL" ELSE "SELL"
    ELSE ""
if_212(in) ==
    IF rsi_extreme(in) = "very_overbought" /\ in.macd_signal = "BEARISH" /\ in.fscore < 5
    THEN "STRONG SELL" ELSE ""
\* The death-cross rule of l.216 limited to 15 days.
DeathWithin15(in) ==
    IF Cross(in, "DEATH_CROSS") /\ in.cross_info.days_ago <= 15
    THEN IF combined_x2(in) >= 2 * 18 THEN "REDUCE" ELSE "SELL"
    ELSE ""
if_216(in) ==
    IF Cross(in, "DEATH_CROSS") /\ in.cross_info.days_ago <= 30
    THEN IF combined_x2(in) >= 2 * 18 THEN "REDUCE" ELSE "SELL"
    ELSE ""
if_222(in) ==
    IF in.supertrend_signal = "BEARISH" /\ in.fscore < 4 /\ in.macd_signal = "BEARISH"
    THEN "SELL" ELSE ""
if_228(in) ==
    IF rsi_extreme(in) = "very_overbought"
    THEN IF in.macd_signal = "BEARISH" THEN "SELL"
         ELSE IF in.macd_signal = "NEUTRAL" \/ in.volume_signal = "LOW" THEN "REDUCE"
         ELSE ""
    ELSE ""
if_235(in) ==
    IF Cross(in, "GOLDEN_CROSS") /\ in.cross_info.days_ago > 90
       /\ (in.macd_signal = "BEARISH" \/ (~IsNa(in.rsi) /\ in.rsi > 70))
    THEN "REDUCE" ELSE ""
if_240(in) == IF in.fscore >= 6 /\ tech_score(in) <= 4 THEN "REDUCE" ELSE ""
if_246(in) ==
    IF Cross(in, "GOLDEN_CROSS") /\ in.cross_info.days_ago <= 10
    THEN IF in.fscore >= 6 /\ in.macd_signal = "BULLISH" /\ in.volume_signal = "HIGH"
         THEN IF in.supertrend_signal = "BULLISH" THEN "STRONG BUY" ELSE "BUY"
         ELSE IF in.fscore >= 5 /\ in.macd_signal = "BULLISH" THEN "BUY"
         ELSE ""
    ELSE ""
if_255(in) ==
    IF rsi_extreme(in) = "very_oversold" /\ in.macd_signal = "BULLISH"
    THEN IF in.fscore >= 6 /\ in.volume_signal = "HIGH"
         THEN IF in.bb_signal = "OVERSOLD" THEN "STRONG BUY" ELSE "BUY"
         ELSE IF in.fscore >= 4 THEN "BUY"
         ELSE ""
    ELSE ""
if_264(in) ==
    IF combined_x2(in) >= 2 * 20
       /\ in.macd_signal = "BULLISH" /\ in.volume_signal \in {"HIGH", "NORMAL"}
       /\ (in.supertrend_signal = "BULLISH" \/ in.bb_signal = "OVERSOLD")
    THEN "STRONG BUY" ELSE ""
if_272(in) ==
    IF Cross(in, "GOLDEN_CROSS") /\ 11 <= in.cross_info.days_ago /\ in.cross_info.days_ago <= 30
    THEN IF in.fscore >= 5 /\ in.macd_signal = "BULLISH"
         THEN IF in.supertrend_signal = "BULLISH" THEN "BUY" ELSE "ADD"
         ELSE IF in.fscore >= 4 THEN "ADD"
         ELSE ""
    ELSE ""
if_281(in) ==
    IF combined_x2(in) >= 2 * 17
       /\ in.macd_signal # "BEARISH" /\ in.supertrend_signal # "BEARISH"
    THEN "BUY" ELSE ""
if_286(in) == IF in.fscore >= 7 /\ tech_score(in) >= 8 THEN "BUY" ELSE ""
if_298(in) == IF bullish_count(in) >= 3 /\ in.fscore >= 6 THEN "BUY" ELSE ""
if_304(in) ==
    IF in.fscore >= 6 /\ rsi_extreme(in) = "oversold" /\ Gt(in.price, in.dma200)
    THEN "ADD" ELSE ""
if_308(in) ==
    IF Cross(in, "GOLDEN_CROSS") /\ 30 < in.cross_info.days_ago /\ in.cross_info.days_ago <= 60
       /\ in.fscore >= 5 /\ tech_score(in) >= 6
    THEN "ADD" ELSE ""
if_313(in) ==
    IF combined_x2(in) >= 2 * 14 /\ in.macd_signal # "BEARISH" /\ in.fscore >= 5
    THEN "ADD" ELSE ""
if_320(in) == IF 2 * 11 <= combined_x2(in) /\ combined_x2(in) < 2 * 14 THEN "HOLD" ELSE ""
if_324(in) == IF in.fscore >= 4 /\ tech_score(in) >= 5 THEN "HOLD" ELSE ""
if_328(in) == IF in.cross_info.type = "GOLDEN_CROSS" /\ in.fscore >= 4 THEN "HOLD" ELSE ""
if_334(in) ==
    IF combined_x2(in) < 2 * 9
       /\ (in.macd_signal = "BEARISH" \/ in.supertrend_signal = "BEARISH")
    THEN "SELL" ELSE ""
if_339(in) == IF in.fscore < 3 /\ tech_score(in) < 5 THEN "SELL" ELSE ""
if_343(in) == IF combined_x2(in) < 2 * 7 THEN "STRONG SELL" ELSE ""

\* The cascade, in the order of the source; the last entry is the final
\* `return`.
Cascade(in) ==
    << [rule |-> 206, rating |-> if_206(in)], [rule |-> 212, rating |-> if_212(in)],
       [rule |-> 216, rating |-> if_216(in)], [rule |-> 222, rating |-> if_222(in)],
       [rule |-> 228, rating |-> if_228(in)], [rule |-> 235, rating |-> if_235(in)],
       [rule |-> 240, rating |-> if_240(in)], [rule |-> 246, rating |-> if_246(in)],
       [rule |-> 255, rating |-> if_255(in)], [rule |-> 264, rating |-> if_264(in)],
       [rule |-> 272, rating |-> if_272(in)], [rule |-> 281, rating |-> if_281(in)],
       [rule |-> 286, rating |-> if_286(in)], [rule |-> 298, rating |-> if_298(in)],
       [rule |-> 304, rating |-> if_304(in)], [rule |-> 308, rating |-> if_308(in)],
       [rule |-> 313, rating |-> if_313(in)], [rule |-> 320, rating |-> if_320(in)],
       [rule |-> 324, rating |-> if_324(in)], [rule |-> 328, rating |-> if_328(in)],
       [rule |-> 334, rating |-> if_334(in)], [rule |-> 339, rating |-> if_339(in)],
       [rule |-> 343, rating |-> if_343(in)], [rule |-> 347, rating |-> "SELL"] >>
\* The first `return` reached.
rating(in) ==
    LET c == Cascade(Normalised(in))
        first == CHOOSE i \in 1..Len(c) : c[i].rating # "" /\ \A j \in 1..(i - 1) : c[j].rating = ""
    IN  c[first]
get_rating_score(r) ==
    CASE r = "STRONG BUY" -> 7
      [] r = "BUY" -> 6
      [] r = "ADD" -> 5
      [] r = "HOLD" -> 4
      [] r = "REDUCE" -> 3
      [] r = "SELL" -> 2
      [] r = "STRONG SELL" -> 1
      [] OTHER -> 0

\* rating is called with the arguments rin.
Rate ==
    /\ rating_pc = "input"
    /\ rout' = rating(rin)
    /\ rating_pc' = "done"
    /\ UNCHANGED <<rin>>
    /\ UNCHANGED <<fetchVars, persistVars, crossVars, fundVars, analyzeVars, signalVars, watchVars>>

\* ------------------------------------------------------------ fundamental_score
\* The ratios of the company info are written in hundredths: 0.15 is 15, a
\* debt-to-equity or price-to-book of 1 is 100.  Each key is absent, null,
\* or a number on either side of its threshold.
Numbers(k) ==
    CASE k = "returnOnEquity" -> {10, 20}
      [] k = "debtToEquity" -> {50, 150}
      [] k = "revenueGrowth" -> {5, 20}
      [] k = "profitMargins" -> {5, 20}
      [] k = "heldPercentInsiders" -> {50, 80}
      [] k = "priceToBook" -> {200, 400}
      [] k = "dividendYield" -> {0, 2}
      [] k = "operatingMargins" -> {10, 20}
FieldValues(k) == {Missing, PyNone} \cup Numbers(k)
\* info.get(key, default)
get(info, key, default) == IF info[key] = Missing THEN default ELSE info[key]
\* `x is not None and isinstance(x, (int, float))`
IsNumber(x) == x # PyNone
\* The points of the tests of l.14-28 and l.38-53, in hundredths.
roe_points(info) ==
    LET roe == get(info, "returnOnEquity", PyNone)
    IN  IF IsNumber(roe) /\ roe > 15 THEN 2 ELSE 0
debt_points(info) ==
    LET debt_to_equity == get(info, "debtToEquity", PyNone)
    IN  IF IsNumber(debt_to_equity) /\ debt_to_equity < 100 THEN 2 ELSE 0
growth_points(info) ==
    LET revenue_growth == get(info, "revenueGrowth", PyNone)
    IN  IF IsNumber(revenue_growth) /\ revenue_growth > 10 THEN 2 ELSE 0
margin_points(info) ==
    LET profit_margins == get(info, "profitMargins", PyNone)
    IN  IF IsNumber(profit_margins) /\ profit_margins > 10 THEN 2 ELSE 0
\* promoter_holding = info.get("heldPercentInsiders", 0) * 100, a percentage:
\* the hundredths of the ratio.
promoter_points(info) ==
    LET promoter_holding == get(info, "heldPercentInsiders", 0)
    IN  IF 40 <= promoter_holding /\ promoter_holding <= 70 THEN 1 ELSE 0
pb_points(info) ==
    LET pb_ratio == get(info, "priceToBook", 99900)
    IN  IF IsNumber(pb_ratio) /\ pb_ratio < 300 /\ pb_ratio > 0 THEN 1 ELSE 0
dividend_points(info) ==
    LET dividend_yield == get(info, "dividendYield", 0)
    IN  IF IsNumber(dividend_yield) /\ dividend_yield > 1 THEN 1 ELSE 0
operating_points(info) ==
    LET operating_margin == get(info, "operatingMargins", 0)
    IN  IF IsNumber(operating_margin) /\ operating_margin > 15 THEN 1 ELSE 0
min(a, b) == IF a < b THEN a ELSE b
\* fundamental_score(info): None * 100 raises TypeError at l.33, and nothing
\* in the function catches it.
fundamental_score(none, info) ==
    IF none THEN NoScore
    ELSE IF get(info, "heldPercentInsiders", 0) = PyNone
    THEN [raised |-> "TypeError", score |-> 0]
    ELSE [raised |-> "",
          score |-> min(roe_points(info) + debt_points(info) + growth_points(info)
                        + margin_points(info) + promoter_points(info) + pb_points(info)
                        + dividend_points(info) + operating_points(info),
                        12)]

\* fundamental_score is called with the argument company_info.
Score ==
    /\ fund_pc = "input"
    /\ fund_out' = fundamental_score(info_is_none, company_info)
    /\ fund_pc' = "done"
    /\ UNCHANGED <<info_is_none, company_info>>
    /\ UNCHANGED <<fetchVars, persistVars, crossVars, ratingVars, analyzeVars, signalVars, watchVars>>

\* ------------------------------------------------------------ analyze_stock
\* What analyze_stock reads: the number of bars, the last close, the means
\* of the last 50 and 200 closes where the series has them, the fundamental
\* score and two of the extracted signals, and the cross detect_cross_age
\* finds (none without 200 bars: every row is dropped).  sma_short is what
\* the moving-average library does with a series shorter than the window:
\* it returns None, returns a column of NaN, or raises.
BarCounts == {49, 50, 120, 199, 200, 250}
SmaShort == {"none", "nan", "raise"}
AnalyzeInputs(n) ==
    {[bars |-> n, sma_short |-> lib, Close |-> c, mean50 |-> s, mean200 |-> l,
      fscore |-> f, macd_signal |-> m, volume_signal |-> v, cross_info |-> x] :
        lib \in SmaShort, c \in {80, 110}, s \in {90, 100}, l \in {90, 100}, f \in {0, 8},
        m \in {"None", "BULLISH"}, v \in {"None", "HIGH"},
        x \in IF n < 200 THEN {default_result}
              ELSE {default_result, [type |-> "GOLDEN_CROSS", days_ago |-> 5]}}
\* ta.sma(df["Close"], length) on n bars, when it does not raise
sma(n, length, mean, lib) ==
    IF n >= length THEN mean
    ELSE IF lib = "nan" THEN NaN
    ELSE PyNone
\* The last row of the DMA columns after add_dma(df, short, long); an
\* exception sets both columns to None.
add_dma(a, short, long) ==
    IF (a.bars < short \/ a.bars < long) /\ a.sma_short = "raise"
    THEN [DMA50 |-> PyNone, DMA200 |-> PyNone]
    ELSE [DMA50 |-> sma(a.bars, short, a.mean50, a.sma_short),
          DMA200 |-> sma(a.bars, long, a.mean200, a.sma_short)]
\* The arguments analyze_stock passes to rating.
RatingArgs(a) ==
    LET last == add_dma(a, 50, 200)
    IN  [NoInput EXCEPT !.price = safe_float(a.Close, 0),
                        !.dma50 = safe_float(last.DMA50, 0),
                        !.dma200 = safe_float(last.DMA200, 0),
                        !.fscore = a.fscore,
                        !.cross_info = a.cross_info,
                        !.macd_signal = a.macd_signal,
                        !.volume_signal = a.volume_signal]

\* analyze_stock(symbol) on the fetched data ain.
Analyze ==
    /\ analyze_pc = "input"
    /\ analyze_pc' = "done"
    /\ IF ain.bars < 50
       THEN /\ result' = NoResult
            /\ UNCHANGED ratingVars
       ELSE /\ rin' = RatingArgs(ain)
            /\ rout' = rating(RatingArgs(ain))
            /\ rating_pc' = "done"
            /\ result' = [returned |-> "dict",
                          price |-> RatingArgs(ain).price,
                          dma50 |-> RatingArgs(ain).dma50,
                          dma200 |-> RatingArgs(ain).dma200,
                          rating |-> rating(RatingArgs(ain)).rating]
    /\ UNCHANGED <<ain>>
    /\ UNCHANGED <<fetchVars, persistVars, crossVars, fundVars, signalVars, watchVars>>

\* ------------------------------------------------------------ signal mappers
\* `x is None or pd.isna(x)`
IsNull(x) == x = PyNone \/ IsNa(x)
\* RSI at or below 30 counted as oversold.
RsiInclusive(rsi) ==
    IF IsNull(rsi) THEN "None"
    ELSE IF rsi <= 30 THEN "OVERSOLD"
    ELSE IF rsi > 70 THEN "OVERBOUGHT"
    ELSE "NEUTRAL"
get_rsi_signal(rsi) ==
    IF IsNull(rsi) THEN "None"
    ELSE IF rsi < 30 THEN "OVERSOLD"
    ELSE IF rsi > 70 THEN "OVERBOUGHT"
    ELSE "NEUTRAL"
get_macd_signal(macd, macd_signal, macd_hist) ==
    IF IsNull(macd) \/ IsNull(macd_signal) \/ IsNull(macd_hist) THEN "None"
    ELSE IF macd > macd_signal /\ macd_hist > 0 THEN "BULLISH"
    ELSE IF macd < macd_signal /\ macd_hist < 0 THEN "BEARISH"
    ELSE "NEUTRAL"
\* volume_ratio in tenths: 1.5 is 15
get_volume_signal(volume_ratio) ==
    IF IsNull(volume_ratio) THEN "None"
    ELSE IF volume_ratio > 15 THEN "HIGH"
    ELSE IF volume_ratio < 5 THEN "LOW"
    ELSE "NORMAL"
get_bollinger_signal(bb_position) ==
    IF IsNull(bb_position) THEN "None"
    ELSE IF bb_position < 20 THEN "OVERSOLD"
    ELSE IF bb_position > 80 THEN "OVERBOUGHT"
    ELSE "NEUTRAL"
get_adx_signal(adx) ==
    IF IsNull(adx) THEN "None"
    ELSE IF adx > 25 THEN "STRONG_TREND"
    ELSE IF adx < 20 THEN "WEAK_TREND"
    ELSE "MODERATE"

\* The values of the last bar: unknown, inside each band, on and beyond
\* each threshold.  MACD values are small integers, 6 standing above 4.
RsiInputs == {PyNone, NaN, 29, 30, 50, 70, 71}
MacdInputs == {PyNone, NaN, 4, 6}
HistInputs == {PyNone, NaN, -5, 0, 5}
VolumeInputs == {PyNone, NaN, 4, 5, 10, 15, 16}
BandInputs == {PyNone, NaN, 19, 20, 50, 80, 81}
AdxInputs == {PyNone, NaN, 19, 20, 25, 26}

\* analyze_stock's extraction of the signals from the last bar.
ExtractSignals ==
    /\ signal_pc = "input"
    /\ sout' = [rsi_signal |-> get_rsi_signal(sin.RSI),
                macd_signal |-> get_macd_signal(sin.MACD, sin.MACD_Signal, sin.MACD_Hist),
                volume_signal |-> get_volume_signal(sin.Volume_Ratio),
                bb_signal |-> get_bollinger_signal(sin.BB_Position),
                adx_signal |-> get_adx_signal(sin.ADX)]
    /\ signal_pc' = "done"
    /\ UNCHANGED <<sin>>
    /\ UNCHANGED <<fetchVars, persistVars, crossVars, ratingVars, fundVars, analyzeVars, watchVars>>

\* ------------------------------------------------------------ watchlist
\* The symbols a caller passes, in either case.
WatchSymbols == {"a", "A", "B"}
WatchArgs == {<<x>> : x \in WatchSymbols} \cup {<<x, y>> : x, y \in WatchSymbols}
WatchOps ==
    {[op |-> o, symbols |-> l] : o \in {"add_symbols", "remove_symbols"}, l \in WatchArgs}
    \cup {[op |-> o, symbols |-> <<>>] :
            o \in {"clear_watchlist", "flush_watchlist", "get_cached_watchlist",
                   "load_watchlist"}}
\* str.upper() left out.
SameCase(x) == x
\* str.upper()
upper(x) ==
    CASE x = "a" -> "A"
      [] x = "b" -> "B"
      [] OTHER -> x
In(x, l) == \E i \in 1..Len(l) : l[i] = x
\* list.remove(x): the first occurrence
RemoveFirst(l, x) ==
    LET i == CHOOSE k \in 1..Len(l) : l[k] = x /\ \A j \in 1..(k - 1) : l[j] # x
    IN  [k \in 1..(Len(l) - 1) |-> IF k < i THEN l[k] ELSE l[k + 1]]
\* The loop of add_symbols: (watchlist, added) after the symbols of l.
RECURSIVE AddLoop(_, _, _)
AddLoop(watchlist, added, l) ==
    IF l = <<>> THEN [watchlist |-> watchlist, changed |-> added]
    ELSE LET symbol == upper(Head(l))
         IN  IF ~In(symbol, watchlist)
             THEN AddLoop(Append(watchlist, symbol), Append(added, symbol), Tail(l))
             ELSE AddLoop(watchlist, added, Tail(l))
\* The loop of remove_symbols.
RECURSIVE RemoveLoop(_, _, _)
RemoveLoop(watchlist, removed, l) ==
    IF l = <<>> THEN [watchlist |-> watchlist, changed |-> removed]
    ELSE LET symbol == upper(Head(l))
         IN  IF In(symbol, watchlist)
             THEN RemoveLoop(RemoveFirst(watchlist, symbol), Append(removed, symbol), Tail(l))
             ELSE RemoveLoop(watchlist, removed, Tail(l))
\* _sync_load_from_disk(): [] when the file does not exist
_sync_load_from_disk == IF watchlist_file = NoList THEN <<>> ELSE watchlist_file

OtherThanWatch ==
    <<fetchVars, persistVars, crossVars, ratingVars, fundVars, analyzeVars, signalVars>>

\* The caller starts a call.
WatchCall(c) ==
    /\ wpc = "idle"
    /\ wcalls < MaxOps
    /\ wcalls' = wcalls + 1
    /\ wop' = c
    /\ wlocal' = NoLocals
    /\ wpc' = CASE c.op \in {"add_symbols", "remove_symbols", "load_watchlist"} -> "load_acquire"
                 [] c.op = "clear_watchlist" -> "save_acquire"
                 [] c.op = "flush_watchlist" -> "flush"
                 [] c.op = "get_cached_watchlist" -> "get_acquire"
    /\ UNCHANGED <<wret, watchlist_lock, _watchlist_cache, _pending_write, wfutures,
                   watchlist_file>>
    /\ UNCHANGED OtherThanWatch
\* load_watchlist: `with _cache_lock:` (a threading.Lock, not reentrant)
LoadAcquire ==
    /\ wpc = "load_acquire"
    /\ watchlist_lock = ""
    /\ watchlist_lock' = "main"
    /\ wpc' = "load_body"
    /\ UNCHANGED <<wop, wlocal, wcalls, wret, _watchlist_cache, _pending_write, wfutures,
                   watchlist_file>>
    /\ UNCHANGED OtherThanWatch
\* load_watchlist's body and return, and the caller's loop over its copy:
\* add_symbols and remove_symbols save only when something changed.
LoadBody ==
    /\ wpc = "load_body"
    /\ LET loaded == IF _watchlist_cache = NoList THEN _sync_load_from_disk
                     ELSE _watchlist_cache
           after == IF wop.op = "add_symbols" THEN AddLoop(loaded, <<>>, wop.symbols)
                    ELSE IF wop.op = "remove_symbols" THEN RemoveLoop(loaded, <<>>, wop.symbols)
                    ELSE [watchlist |-> loaded, changed |-> <<>>]
       IN  /\ _watchlist_cache' = loaded
           /\ watchlist_lock' = ""
           /\ wlocal' = [before |-> loaded, watchlist |-> after.watchlist,
                         changed |-> after.changed]
           /\ IF wop.op \in {"add_symbols", "remove_symbols"}
              THEN IF after.changed # <<>>
                   THEN wpc' = "save_acquire" /\ UNCHANGED wret
                   ELSE wpc' = "idle" /\ wret' = after.changed
              ELSE wpc' = "idle" /\ wret' = loaded
    /\ UNCHANGED <<wop, wcalls, _pending_write, wfutures, watchlist_file>>
    /\ UNCHANGED OtherThanWatch
\* save_watchlist: `with _cache_lock:`
SaveAcquire ==
    /\ wpc = "save_acquire"
    /\ watchlist_lock = ""
    /\ watchlist_lock' = "main"
    /\ wpc' = "save_store"
    /\ UNCHANGED <<wop, wlocal, wcalls, wret, _watchlist_cache, _pending_write, wfutures,
                   watchlist_file>>
    /\ UNCHANGED OtherThanWatch
\* save_watchlist: _watchlist_cache = symbols.copy(), and the lock released
SaveStore ==
    /\ wpc = "save_store"
    /\ _watchlist_cache' = wlocal.watchlist
    /\ watchlist_lock' = ""
    /\ wpc' = "async_save"
    /\ UNCHANGED <<wop, wlocal, wcalls, wret, _pending_write, wfutures, watchlist_file>>
    /\ UNCHANGED OtherThanWatch
\* Future.cancel(): only a future that has not started is cancelled.
Cancelled(fs, p) ==
    IF p # 0 /\ fs[p].state = "pending" THEN [fs EXCEPT ![p].state = "cancelled"] ELSE fs
\* _async_save_to_disk: cancel the pending write, submit the new one; then
\* the return of the caller.
_async_save_to_disk ==
    /\ wpc = "async_save"
    /\ wfutures' = Append(Cancelled(wfutures, _pending_write),
                          [symbols |-> wlocal.watchlist, state |-> "pending"])
    /\ _pending_write' = Len(wfutures) + 1
    /\ wret' = wlocal.changed
    /\ wpc' = "idle"
    /\ UNCHANGED <<wop, wlocal, wcalls, watchlist_lock, _watchlist_cache, watchlist_file>>
    /\ UNCHANGED OtherThanWatch
\* flush_watchlist that does not wait for the write.
FlushWithoutWaiting ==
    /\ wpc = "flush"
    /\ _pending_write # 0
    /\ _pending_write' = 0
    /\ wret' = <<>>
    /\ wpc' = "idle"
    /\ UNCHANGED <<wop, wlocal, wcalls, watchlist_lock, _watchlist_cache, wfutures,
                   watchlist_file>>
    /\ UNCHANGED OtherThanWatch
\* flush_watchlist with a pending write: _pending_write.result() returns
\* once the write is done.
FlushWait ==
    /\ wpc = "flush"
    /\ _pending_write # 0
    /\ wfutures[_pending_write].state = "done"
    /\ _pending_write' = 0
    /\ wret' = <<>>
    /\ wpc' = "idle"
    /\ UNCHANGED <<wop, wlocal, wcalls, watchlist_lock, _watchlist_cache, wfutures,
                   watchlist_file>>
    /\ UNCHANGED OtherThanWatch
\* flush_watchlist with nothing pending.
FlushNone ==
    /\ wpc = "flush"
    /\ _pending_write = 0
    /\ wret' = <<>>
    /\ wpc' = "idle"
    /\ UNCHANGED <<wop, wlocal, wcalls, watchlist_lock, _watchlist_cache, _pending_write,
                   wfutures, watchlist_file>>
    /\ UNCHANGED OtherThanWatch
\* get_cached_watchlist: `with _cache_lock:`
GetAcquire ==
    /\ wpc = "get_acquire"
    /\ watchlist_lock = ""
    /\ watchlist_lock' = "main"
    /\ wpc' = "get_body"
    /\ UNCHANGED <<wop, wlocal, wcalls, wret, _watchlist_cache, _pending_write, wfutures,
                   watchlist_file>>
    /\ UNCHANGED OtherThanWatch
\* get_cached_watchlist's body: with no list in memory it calls
\* load_watchlist while it holds the lock; otherwise it returns a copy and
\* releases the lock.
GetBody ==
    /\ wpc = "get_body"
    /\ IF _watchlist_cache = NoList
       THEN /\ wpc' = "load_acquire"
            /\ UNCHANGED <<wret, watchlist_lock>>
       ELSE /\ wret' = _watchlist_cache
            /\ watchlist_lock' = ""
            /\ wpc' = "idle"
    /\ UNCHANGED <<wop, wlocal, wcalls, _watchlist_cache, _pending_write, wfutures,
                   watchlist_file>>
    /\ UNCHANGED OtherThanWatch
\* The single worker of _executor takes the oldest future that is not
\* cancelled.
WriterStart ==
    /\ wpc # "off"
    /\ \E i \in 1..Len(wfutures) :
        /\ wfutures[i].state = "pending"
        /\ \A j \in 1..Len(wfutures) : wfutures[j].state # "running"
        /\ \A j \in 1..(i - 1) : wfutures[j].state # "pending"
        /\ wfutures' = [wfutures EXCEPT ![i].state = "running"]
    /\ UNCHANGED <<wpc, wop, wlocal, wcalls, wret, watchlist_lock, _watchlist_cache,
                   _pending_write, watchlist_file>>
    /\ UNCHANGED OtherThanWatch
\* _sync_save_to_disk: the temporary file replaces WATCHLIST_FILE.
_sync_save_to_disk ==
    /\ wpc # "off"
    /\ \E i \in 1..Len(wfutures) :
        /\ wfutures[i].state = "running"
        /\ watchlist_file' = wfutures[i].symbols
        /\ wfutures' = [wfutures EXCEPT ![i].state = "done"]
    /\ UNCHANGED <<wpc, wop, wlocal, wcalls, wret, watchlist_lock, _watchlist_cache,
                   _pending_write>>
    /\ UNCHANGED OtherThanWatch

\* ------------------------------------------------------------ specification
Next ==
    \/ \E t \in TimePoints : Tick(t)
    \/ LoadTables
    \/ SweepAfterLoad
    \/ save_cache_to_disk
    \/ \E w \in Threads, c \in Calls : Call(w, c)
    \/ \E w \in Threads : CheckCache(w)
    \/ \E w \in Threads : \E d \in UpstreamResults(call[w]) : UpstreamReturn(w, d)
    \/ \E w \in Threads : UpstreamFail(w)
    \/ \E w \in Threads : clear_expired_cache(w)
    \/ \E w \in Threads : clear_cache(w)
    \/ \E w \in Threads, m \in BOOLEAN : Return(w, m)

Spec == Init /\ [][Next]_vars

\* A run that calls fetch_stock_batch.  Every thread that can take a step
\* takes one: the pool's threads and the caller are scheduled by the system.
\* The clock is read between two calls of fetch_stock_batch.
BatchInit == Init /\ scope = "batch" /\ disk.history = EmptyTable
BatchNext ==
    \/ \E t \in TimePoints : bpc = "idle" /\ Tick(t)
    \/ LoadTables
    \/ SweepAfterLoad
    \/ \E l \in SymbolLists, p \in Periods, cpu \in CpuCounts : StartBatch(l, p, cpu)
    \/ \E w \in Threads : TakeTask(w)
    \/ \E w \in Threads : CheckCache(w)
    \/ \E w \in Threads : \E d \in UpstreamResults(call[w]) : UpstreamReturn(w, d)
    \/ \E w \in Threads : UpstreamFail(w)
    \/ \E w \in Threads : UpstreamHang(w)
    \/ \E w \in Threads : FinishTask(w)
    \/ CollectInfo
    \/ CollectHistory
    \/ BatchReturn
BatchSpec == BatchInit /\ [][BatchNext]_vars

FairBatchSpec == BatchSpec /\ WF_vars(BatchNext)

\* A run that loads whatever is found in place of the cache files and saves
\* the tables at exit, on a file system that may refuse the save.
PersistInit ==
    /\ FetchInit
    /\ scope = "info"
    /\ files \in [FileNames -> FileStates]
    /\ fault \in Faults
    /\ EngineIdle
PersistNext ==
    \/ \E t \in TimePoints : Tick(t)
    \/ LoadTables
    \/ SweepAfterLoad
    \/ save_cache_to_disk
    \/ SaveDirFail
    \/ \E left \in {"kept", "empty", "corrupt"} : SaveWriteFail(left)
PersistSpec == PersistInit /\ [][PersistNext]_vars

\* The state of the cache while an analysis function is checked alone.
FetchAtRest ==
    /\ FetchInit
    /\ scope = "info"
    /\ disk = [info |-> EmptyTable, history |-> EmptyTable, batch |-> EmptyTable]
    /\ files = [f \in FileNames |-> "ok"]
    /\ fault = "none"

\* Concurrent calls of fetch_stock_history_batch alone, on an empty cache.
KeyInit ==
    /\ FetchInit
    /\ scope = "batch"
    /\ disk = [info |-> EmptyTable, history |-> EmptyTable, batch |-> EmptyTable]
    /\ files = [f \in FileNames |-> "ok"]
    /\ fault = "none"
    /\ EngineIdle
KeyNext ==
    \/ \E t \in TimePoints : Tick(t)
    \/ LoadTables
    \/ SweepAfterLoad
    \/ \E w \in Threads, c \in KeyCalls : Call(w, c)
    \/ \E w \in Threads : CheckCache(w)
    \/ \E w \in Threads : \E d \in UpstreamResults(call[w]) : UpstreamReturn(w, d)
    \/ \E w \in Threads : UpstreamFail(w)
    \/ \E w \in Threads, m \in BOOLEAN : Return(w, m)
KeySpec == KeyInit /\ [][KeyNext]_vars

\* The cross detectors on every history of at most MaxBars bars.
CrossInit ==
    /\ FetchAtRest
    /\ WatchIdle
    /\ SignalIdle
    /\ RatingIdle
    /\ FundIdle
    /\ AnalyzeIdle
    /\ df = <<>>
    /\ cross_pc = "input"
    /\ cross_info = default_result
    /\ immediate_cross = "None"
    /\ run_cross_info = default_result
CrossNext ==
    \/ \E gap \in Gaps, short \in ShortValues \cup {NaN}, long \in LongValues \cup {NaN} :
          AddBar(gap, short, long)
    \/ Detect
CrossSpec == CrossInit /\ [][CrossNext]_vars

\* rating on every combination of the argument values above.
RatingInit ==
    /\ FetchAtRest
    /\ WatchIdle
    /\ SignalIdle
    /\ CrossIdle
    /\ FundIdle
    /\ AnalyzeIdle
    /\ rating_pc = "input"
    /\ \E p \in PriceTriples, f \in Fscores, c \in CrossEvents, r \in RsiValues,
          m \in MacdSignals, v \in VolumeSignals, b \in BbSignals,
          st \in SupertrendSignals, a \in AdxSignals :
            rin = [price |-> p[1], dma50 |-> p[2], dma200 |-> p[3], fscore |-> f,
                   cross_info |-> c, rsi |-> r, macd_signal |-> m, volume_signal |-> v,
                   bb_signal |-> b, supertrend_signal |-> st, adx_signal |-> a]
    /\ rout = NoRating
RatingNext == Rate
RatingSpec == RatingInit /\ [][RatingNext]_vars

\* fundamental_score on None and on every record over the values above.
FundInit ==
    /\ FetchAtRest
    /\ WatchIdle
    /\ SignalIdle
    /\ CrossIdle
    /\ RatingIdle
    /\ AnalyzeIdle
    /\ fund_pc = "input"
    /\ info_is_none \in BOOLEAN
    /\ \E a \in FieldValues("returnOnEquity"), b \in FieldValues("debtToEquity"),
          c \in FieldValues("revenueGrowth"), d \in FieldValues("profitMargins"),
          e \in FieldValues("heldPercentInsiders"), f \in FieldValues("priceToBook"),
          g \in FieldValues("dividendYield"), h \in FieldValues("operatingMargins") :
            company_info =
                IF info_is_none THEN [k \in InfoKeys |-> Missing]
                ELSE [k \in InfoKeys |->
                        CASE k = "returnOnEquity" -> a
                          [] k = "debtToEquity" -> b
                          [] k = "revenueGrowth" -> c
                          [] k = "profitMargins" -> d
                          [] k = "heldPercentInsiders" -> e
                          [] k = "priceToBook" -> f
                          [] k = "dividendYield" -> g
                          [] k = "operatingMargins" -> h]
    /\ fund_out = NoScore
FundNext == Score
FundSpec == FundInit /\ [][FundNext]_vars

\* analyze_stock on every series length and last row above.
AnalyzeInit ==
    /\ FetchAtRest
    /\ WatchIdle
    /\ SignalIdle
    /\ CrossIdle
    /\ RatingIdle
    /\ FundIdle
    /\ analyze_pc = "input"
    /\ \E n \in BarCounts : ain \in AnalyzeInputs(n)
    /\ result = NoResult
AnalyzeNext == Analyze
AnalyzeSpec == AnalyzeInit /\ [][AnalyzeNext]_vars

\* The signal mappers on every combination of the values above.
SignalInit ==
    /\ FetchAtRest
    /\ WatchIdle
    /\ CrossIdle
    /\ RatingIdle
    /\ FundIdle
    /\ AnalyzeIdle
    /\ signal_pc = "input"
    /\ \E r \in RsiInputs, m \in MacdInputs, g \in MacdInputs, h \in HistInputs,
          v \in VolumeInputs, b \in BandInputs, a \in AdxInputs :
            sin = [RSI |-> r, MACD |-> m, MACD_Signal |-> g, MACD_Hist |-> h,
                   Volume_Ratio |-> v, BB_Position |-> b, ADX |-> a]
    /\ sout = NoSignals
SignalNext == ExtractSignals
SignalSpec == SignalInit /\ [][SignalNext]_vars

\* One caller and the background writer, from an empty watchlist: nothing
\* in memory, no file or an empty list on disk.
WatchInit ==
    /\ FetchAtRest
    /\ CrossIdle
    /\ RatingIdle
    /\ FundIdle
    /\ AnalyzeIdle
    /\ SignalIdle
    /\ wpc = "idle"
    /\ WatchFresh
    /\ watchlist_file \in {NoList, <<>>}
WatchNext ==
    \/ \E c \in WatchOps : WatchCall(c)
    \/ LoadAcquire
    \/ LoadBody
    \/ SaveAcquire
    \/ SaveStore
    \/ _async_save_to_disk
    \/ FlushWait
    \/ FlushNone
    \/ GetAcquire
    \/ GetBody
    \/ WriterStart
    \/ _sync_save_to_disk
WatchSpec == WatchInit /\ [][WatchNext]_vars
\* Every thread that can take a step eventually takes one.
FairWatchSpec == WatchSpec /\ WF_vars(WatchNext)

\* ------------------------------------------------------------ properties
\* The TTL of each kind, as documented: 300 s for metadata, 60 s for history.
Ttl(op) == IF op = "info" THEN 300 ELSE 60
\* Thread w finishes its lookup with a hit in this step.
HitStep(w) == pc[w] = "lookup" /\ call[w].op \in AccessorOps /\ how'[w] = "hit"

\* C1: while a cached access to a key is between its miss and the store of
\* the fresh entry, no other cached access to the same key is in an upstream
\* call of its own: a missing or expired entry costs one upstream call.
C1_OneUpstreamCallPerMiss ==
    \A v, w \in Threads :
        (v # w /\ pc[v] = "upstream" /\ pc[w] = "upstream"
         /\ call[v].use_cache /\ call[w].use_cache)
        => ~SameSlot(call[v], call[w])

C3_HitReturnsUpstreamData ==
    [][\A w \in Threads : HitStep(w) => ~Value(w)'.dirty]_vars

\* C4: the step in which the upstream call of an accessor fails changes none
\* of the three tables, and the accessor returns a new empty value.
C4_FailureWritesNothing ==
    [][\A w \in Threads :
        (pc[w] = "upstream" /\ how'[w] = "failed")
        => /\ info_cache' = info_cache
           /\ history_cache' = history_cache
           /\ batch_history_cache' = batch_history_cache
           /\ pc'[w] = "done"
           /\ ~shared'[w]
           /\ ret'[w] = EmptyValue]_vars
\* A call has failed while its table holds an older entry for its key.
C4_Witness ==
    \E w \in Threads :
        pc[w] = "done" /\ how[w] = "failed" /\ Cached(call[w]) /\ ~IsEmpty(Entry(call[w]).val)

C6_BatchReturns == (bpc = "collect_info") ~> (bpc = "returned")

\* The result of the metadata task of symbol s, and whether it has one.
InfoTaskOf(s) == CHOOSE i \in InfoTasks : bargs.symbols[i] = s
HasInfo(s) == ~IsEmpty(futures[InfoTaskOf(s)].val)
\* The bulk frame has a series for symbol s.
HasHistory(s) == ~IsEmpty(history_data) /\ s \in history_data.cols
Requested == SetOf(bargs.symbols)

\* C7: when the metadata call of X fails and the bulk call succeeds with a
\* series for X, the result pairs X with that series and with an empty
\* record; every other symbol that has metadata is paired with it.
C7_PartialFailure ==
    bpc = "returned" =>
        \A x \in Requested :
            (futures[InfoTaskOf(x)].how = "failed" /\ futures[0].how # "failed" /\ HasHistory(x))
            => /\ x \in DOMAIN results
               /\ ~IsEmpty(results[x].df)
               /\ results[x].df.cols = {x}
               /\ results[x].info = EmptyValue
               /\ \A y \in Requested \ {x} :
                    HasInfo(y) => /\ y \in DOMAIN results
                                  /\ results[y].info = futures[InfoTaskOf(y)].val
\* A batch of two symbols: metadata failed for one, the other has metadata.
C7_Witness ==
    /\ bpc = "returned"
    /\ Len(bargs.symbols) = 2
    /\ \E x, y \in Requested :
        /\ x # y
        /\ futures[InfoTaskOf(x)].how = "failed" /\ futures[0].how = "fetched" /\ HasHistory(x)
        /\ HasInfo(y)

\* C8 as stated: when the bulk call fails, every symbol whose metadata fetch
\* did not fail is in the result, with an empty series and its metadata.
C8_AsStated ==
    (bpc = "returned" /\ futures[0].how = "failed") =>
        \A x \in Requested :
            futures[InfoTaskOf(x)].how # "failed"
            => /\ x \in DOMAIN results
               /\ IsEmpty(results[x].df)
               /\ results[x].info = futures[InfoTaskOf(x)].val
\* C8: when the bulk call fails, every symbol whose metadata fetch returned
\* a record that is not empty is in the result, with an empty series and
\* that record.
C8_BulkFailure ==
    (bpc = "returned" /\ futures[0].how = "failed") =>
        \A x \in Requested :
            HasInfo(x)
            => /\ x \in DOMAIN results
               /\ IsEmpty(results[x].df)
               /\ results[x].info = futures[InfoTaskOf(x)].val
\* The bulk call failed and a symbol is returned with its metadata alone.
C8_Witness ==
    /\ bpc = "returned"
    /\ futures[0].how = "failed"
    /\ \E x \in Requested : HasInfo(x) /\ x \in DOMAIN results
    /\ \E x \in Requested : futures[InfoTaskOf(x)].how = "failed"

\* C9: the keys of the result are the requested symbols that have a series
\* in the bulk frame or a metadata record that is not empty; each is paired
\* with its series, empty when the frame has none for it.
C9_ResultKeys ==
    bpc = "returned" =>
        /\ DOMAIN results = {s \in Requested : HasHistory(s) \/ HasInfo(s)}
        /\ \A s \in DOMAIN results :
             /\ HasHistory(s) => results[s].df = [history_data EXCEPT !.cols = {s}]
             /\ ~HasHistory(s) => IsEmpty(results[s].df)
\* The frame has a series for one symbol and none for the other, which is
\* kept for its metadata.
C9_Witness ==
    /\ bpc = "returned"
    /\ \E x, y \in Requested :
        /\ x \in DOMAIN results /\ HasHistory(x) /\ ~HasInfo(x)
        /\ y \in DOMAIN results /\ ~HasHistory(y) /\ IsEmpty(results[y].df)

\* C11: no persistence failure propagates.  After the load, the table of a
\* file that is missing, empty or corrupt is empty and the table of an intact
\* file holds the file's entries; no exception leaves save_cache_to_disk,
\* whether the creation of the directory or the writing of a file fails.
C11_PersistenceNeverRaises ==
    /\ raised = ""
    /\ phase = "loaded" =>
         \A f \in FileNames :
            TableOf(f) = IF files[f] = "ok" THEN disk[f] ELSE EmptyTable

\* The bars of df in which both averages are defined, the sign of short
\* minus long at such a bar, and the bar before it.
DefinedBars == {i \in 1..Len(df) : df[i].DMA50 # NaN /\ df[i].DMA200 # NaN}
Sign(i) ==
    IF df[i].DMA50 > df[i].DMA200 THEN 1 ELSE IF df[i].DMA50 = df[i].DMA200 THEN 0 ELSE -1
HasBefore(i) == \E j \in DefinedBars : j < i
Before(i) == CHOOSE j \in DefinedBars : j < i /\ \A k \in DefinedBars : k < i => k <= j
GoldenBars == {i \in DefinedBars : HasBefore(i) /\ Sign(i) > Sign(Before(i))}
DeathBars == {i \in DefinedBars : HasBefore(i) /\ Sign(i) < Sign(Before(i))}
Latest(S) == CHOOSE i \in S : \A j \in S : df[j].date <= df[i].date

\* C12: detect_cross_age reports the later of the most recent golden-cross
\* bar and the most recent death-cross bar, with days_ago the date of the
\* latest bar minus the date of that bar, and type None when there is no
\* jump of the sign among the bars where both averages are defined.
C12_LatestCross ==
    cross_pc = "done" =>
        IF GoldenBars \cup DeathBars = {}
        THEN cross_info = default_result
        ELSE LET c == Latest(GoldenBars \cup DeathBars)
             IN  /\ cross_info.type = IF c \in GoldenBars THEN "GOLDEN_CROSS" ELSE "DEATH_CROSS"
                 /\ cross_info.days_ago = df[Len(df)].date - df[c].date
\* A golden cross that follows a death cross and lies a weekend back: its
\* age in days is larger than its age in bars.
C12_Witness ==
    /\ cross_pc = "done"
    /\ GoldenBars # {} /\ DeathBars # {}
    /\ cross_info.type = "GOLDEN_CROSS"
    /\ cross_info.days_ago > Len(df) - Latest(GoldenBars)
    /\ \E i \in 1..Len(df) : df[i].DMA200 = NaN

\* C13: when cross_signal reports a cross, detect_cross_age alone reports
\* the same type with age 0, and so does the cross_info that run overrides.
C13_ImmediateCross ==
    (cross_pc = "done" /\ immediate_cross # "None") =>
        /\ cross_info = [type |-> immediate_cross, days_ago |-> 0]
        /\ run_cross_info = cross_info
\* A death cross at the latest bar, after a golden cross.
C13_Witness ==
    /\ cross_pc = "done"
    /\ immediate_cross = "DEATH_CROSS"
    /\ GoldenBars # {}

Rated == rating_pc = "done"
\* The combined score of the arguments is n (n may be a half: pass 2 * n).
CombinedIs(n2) == combined_x2(rin) = n2

\* C14: a death cross aged 15 days or less is rated STRONG SELL when MACD is
\* BEARISH or volume is HIGH and SELL otherwise, whatever the other arguments.
C14_Rule1First ==
    (Rated /\ rin.cross_info.type = "DEATH_CROSS" /\ rin.cross_info.days_ago # NoDays
     /\ rin.cross_info.days_ago <= 15)
    => rout.rating = IF rin.macd_signal = "BEARISH" \/ rin.volume_signal = "HIGH"
                     THEN "STRONG SELL" ELSE "SELL"
\* The example: price 80, averages 90 and 100, death cross aged 3, bearish
\* MACD, with the best fundamentals.
C14_Witness ==
    /\ Rated
    /\ rin.price = 80 /\ rin.dma50 = 90 /\ rin.dma200 = 100
    /\ rin.cross_info = [type |-> "DEATH_CROSS", days_ago |-> 3]
    /\ rin.macd_signal = "BEARISH" /\ rin.volume_signal = "NORMAL"
    /\ rin.fscore = 12
    /\ rout.rating = "STRONG SELL"

\* C15: the example of rule 7 (price 110, averages 100 and 90, fscore 8,
\* golden cross aged 5, bullish MACD, HIGH volume, nothing else supplied) is
\* rated STRONG BUY, and so is every golden cross aged 10 days or less with
\* fscore >= 6, bullish MACD and HIGH volume that no earlier rule matches.
C15_Rule7 ==
    (Rated /\ rout.rule >= 246
     /\ rin.cross_info.type = "GOLDEN_CROSS" /\ rin.cross_info.days_ago # NoDays
     /\ rin.cross_info.days_ago <= 10
     /\ rin.fscore >= 6 /\ rin.macd_signal = "BULLISH" /\ rin.volume_signal = "HIGH")
    => rout.rating = "STRONG BUY"

\* C16: with bullish MACD and HIGH or NORMAL volume, when no rule before
\* rules 9 and 11 matches, a combined score of 17 is rated BUY and a combined
\* score of 18 is rated STRONG BUY.
C16_Boundary ==
    (Rated /\ rout.rule \in {264} \cup 281..347
     /\ rin.macd_signal = "BULLISH" /\ rin.volume_signal \in {"HIGH", "NORMAL"})
    => /\ CombinedIs(2 * 17) => rout.rating = "BUY"
       /\ CombinedIs(2 * 18) => rout.rating = "STRONG BUY"

\* C17: when none of rules 1 to 10 matches, a combined score of at least 17
\* with a MACD signal that is not BEARISH is rated BUY.
C17_Rule11 ==
    (Rated /\ rout.rule >= 281 /\ combined_x2(rin) >= 2 * 17 /\ rin.macd_signal # "BEARISH")
    => rout.rating = "BUY"

\* The rules after the cross, extreme-RSI, buy and add rules.
Fallback == {320, 324, 334, 339, 343, 347}
\* C18: among the arguments that only the fallback rules match, a combined
\* score below 7 is rated STRONG SELL, and lowering fscore (hence the
\* combined score), all else equal, never improves the rating.
C18_Fallback ==
    (Rated /\ rout.rule \in Fallback)
    => /\ combined_x2(rin) < 2 * 7 => rout.rating = "STRONG SELL"
       /\ \A f \in Fscores :
            (f < rin.fscore /\ rating([rin EXCEPT !.fscore = f]).rule \in Fallback)
            => get_rating_score(rating([rin EXCEPT !.fscore = f]).rating)
               <= get_rating_score(rout.rating)

\* Key k holds a number that passes its threshold test.
Passes(k) ==
    LET x == company_info[k]
    IN  /\ x \notin {Missing, PyNone}
        /\ CASE k = "returnOnEquity" -> x > 15
              [] k = "debtToEquity" -> x < 100
              [] k = "revenueGrowth" -> x > 10
              [] k = "profitMargins" -> x > 10
              [] k = "heldPercentInsiders" -> 40 <= x /\ x <= 70
              [] k = "priceToBook" -> 0 < x /\ x < 300
              [] k = "dividendYield" -> x > 1
              [] k = "operatingMargins" -> x > 15
Weight(k) ==
    IF k \in {"returnOnEquity", "debtToEquity", "revenueGrowth", "profitMargins"} THEN 2 ELSE 1
RECURSIVE PointsOf(_)
PointsOf(K) ==
    IF K = {} THEN 0
    ELSE LET k == CHOOSE x \in K : TRUE
         IN  (IF Passes(k) THEN Weight(k) ELSE 0) + PointsOf(K \ {k})
\* C19: fundamental_score raises nothing and returns the sum of the points
\* of the tests that pass, within 0..12, an absent or null key counting zero.
C19_NullIsZero ==
    (fund_pc = "done" /\ ~info_is_none)
    => /\ fund_out.raised = ""
       /\ fund_out.score \in 0..12
       /\ fund_out.score = PointsOf(InfoKeys)

\* x stands for no number.
Unknown(x) == x \in {PyNone, NaN}
\* C20: with fewer than 200 bars the long average of the analysis result
\* and of the arguments passed to rating is unknown, never a number.
C20_ShortSeriesUnknown ==
    (analyze_pc = "done" /\ result.returned = "dict" /\ ain.bars < 200)
    => /\ Unknown(result.dma200)
       /\ Unknown(rin.dma200)

\* C21: with an unknown long average the mild-dip rule (l.304) does not
\* fire and the DMA alignment gives no point.
C21_UnknownLongAverage ==
    (Rated /\ Unknown(rin.dma200))
    => /\ rout.rule # 304
       /\ dma_points(Normalised(rin)) = 0

Known(x) == x \notin {PyNone, NaN}
\* The category of value x in the table row (low, high, below, middle,
\* above): unknown for an unknown value, the middle one on the boundaries.
Row(x, low, high, below, middle, above) ==
    IF ~Known(x) THEN "None"
    ELSE IF x < low THEN below
    ELSE IF x > high THEN above
    ELSE middle
\* C22: each mapper returns the category of the documented table, unknown
\* for an unknown input, the boundary values mapping to the middle category.
C22_SignalTable ==
    signal_pc = "done"
    => /\ sout.rsi_signal = Row(sin.RSI, 30, 70, "OVERSOLD", "NEUTRAL", "OVERBOUGHT")
       /\ sout.volume_signal = Row(sin.Volume_Ratio, 5, 15, "LOW", "NORMAL", "HIGH")
       /\ sout.bb_signal = Row(sin.BB_Position, 20, 80, "OVERSOLD", "NEUTRAL", "OVERBOUGHT")
       /\ sout.adx_signal = Row(sin.ADX, 20, 25, "WEAK_TREND", "MODERATE", "STRONG_TREND")
       /\ (Known(sin.MACD) /\ Known(sin.MACD_Signal) /\ Known(sin.MACD_Hist))
          => /\ sout.macd_signal = "BULLISH"
                <=> (sin.MACD > sin.MACD_Signal /\ sin.MACD_Hist > 0)
             /\ sout.macd_signal = "BEARISH"
                <=> (sin.MACD < sin.MACD_Signal /\ sin.MACD_Hist < 0)
             /\ sout.macd_signal \in {"BULLISH", "BEARISH", "NEUTRAL"}
       /\ ~(Known(sin.MACD) /\ Known(sin.MACD_Signal) /\ Known(sin.MACD_Hist))
          => sout.macd_signal = "None"
\* Every value on a boundary, MACD above its signal with a zero histogram.
C22_Witness ==
    /\ signal_pc = "done"
    /\ sin.RSI = 30 /\ sin.Volume_Ratio = 15 /\ sin.BB_Position = 80 /\ sin.ADX = 25
    /\ sin.MACD = 6 /\ sin.MACD_Signal = 4 /\ sin.MACD_Hist = 0
    /\ sout = [rsi_signal |-> "NEUTRAL", macd_signal |-> "NEUTRAL", volume_signal |-> "NORMAL",
               bb_signal |-> "NEUTRAL", adx_signal |-> "MODERATE"]

\* The symbol x with its case folded.
Folded(x) == IF x = "a" THEN "A" ELSE IF x = "b" THEN "B" ELSE x
SetOfList(l) == {l[i] : i \in 1..Len(l)}
\* No two entries of l are the same symbol, case apart.
NoDuplicate(l) == \A i, j \in 1..Len(l) : Folded(l[i]) = Folded(l[j]) => i = j
\* C23: the watchlist never holds a symbol twice, case apart, every stored
\* symbol is upper case, and add_symbols returns exactly the symbols it
\* newly added.
C23_NoDuplicates ==
    /\ _watchlist_cache # NoList
       => /\ NoDuplicate(_watchlist_cache)
          /\ \A i \in 1..Len(_watchlist_cache) :
                _watchlist_cache[i] = Folded(_watchlist_cache[i])
    /\ (wpc = "idle" /\ wop.op = "add_symbols")
       => /\ NoDuplicate(wret)
          /\ SetOfList(wret) = SetOfList(_watchlist_cache) \ SetOfList(wlocal.before)
          /\ SetOfList(wret) = {Folded(x) : x \in SetOfList(wop.symbols)}
                                \ SetOfList(wlocal.before)
\* add_symbols(["a", "A"]) on a watchlist holding B returned ["A"].
C23_Witness ==
    /\ wpc = "idle"
    /\ wop = [op |-> "add_symbols", symbols |-> <<"a", "A">>]
    /\ wlocal.before = <<"B">>
    /\ wret = <<"A">>
    /\ _watchlist_cache = <<"B", "A">>

\* C24: a thread that is inside an upstream call does not own the cache
\* lock.
C24_NoLockAcrossUpstream ==
    \A w \in Threads : pc[w] = "upstream" => cache_lock # w
\* Two threads are inside upstream calls at once, and the lock is free.
C24_Witness ==
    \E w, v \in Threads :
        /\ w # v
        /\ pc[w] = "upstream" /\ call[w].op \in AccessorOps
        /\ pc[v] = "upstream" /\ call[v].op \in AccessorOps
        /\ cache_lock = 0

\* Thread w runs clear_expired_cache's locked block in this step.
SweepStep(w) == pc[w] = "lookup" /\ call[w].op = "sweep" /\ pc'[w] = "done"
\* Table after is table before without its entries of age ttl or more,
\* the others untouched.
ExactlyTheValid(before, after, ttl) ==
    /\ DOMAIN after = {k \in DOMAIN before : now - before[k].ts < ttl}
    /\ \A k \in DOMAIN after : after[k] = before[k]
\* C25: clear_expired_cache leaves in each table exactly the entries that
\* pass the TTL check of their kind, unchanged, whatever the other threads
\* are doing.
C25_SweepExact ==
    [][\A w \in Threads :
        SweepStep(w)
        => /\ ExactlyTheValid(info_cache, info_cache', 300)
           /\ ExactlyTheValid(history_cache, history_cache', 60)
           /\ ExactlyTheValid(batch_history_cache, batch_history_cache', 60)]_vars
\* A sweep has run after a fetch of the other caller: the entry that fetch
\* stored has expired and is gone.
C25_Witness ==
    \E w, v \in Threads :
        /\ pc[w] = "done" /\ call[w].op = "sweep"
        /\ pc[v] = "done" /\ how[v] = "fetched" /\ call[v].op \in AccessorOps
        /\ ~Cached(call[v])
        /\ now >= 60

\* Thread w runs the lookup of fetch_stock_history_batch in this step.
BatchLookup(w) == pc[w] = "lookup" /\ call[w].op = "batch" /\ pc'[w] # "lookup"
\* The batch table holds a valid entry for the symbols of l, in some order,
\* and the period p.
StoredFor(l, p) ==
    \E k \in DOMAIN batch_history_cache :
        /\ SetOfList(k[1]) = SetOfList(l)
        /\ Len(k[1]) = Len(l)
        /\ k[2] = p
        /\ now - batch_history_cache[k].ts < 60
\* C26: a lookup of fetch_stock_history_batch is a hit without an upstream
\* call when a valid entry exists for the same symbols in any order and the
\* same period, and a miss otherwise.
C26_KeyIgnoresOrder ==
    [][\A w \in Threads :
        BatchLookup(w)
        => IF StoredFor(call[w].symbols, call[w].period)
           THEN how'[w] = "hit" /\ pc'[w] = "done" /\ calls' = calls
           ELSE pc'[w] = "upstream" /\ calls' = calls + 1]_vars
\* A call with ["B", "A"] was a hit on the entry a call with ["A", "B"] and
\* the same period had stored.
C26_Witness ==
    \E w, v \in Threads :
        /\ pc[v] = "done" /\ how[v] = "fetched" /\ call[v].op = "batch"
        /\ call[v].symbols = <<"A", "B">>
        /\ pc[w] = "done" /\ how[w] = "hit" /\ call[w].op = "batch"
        /\ call[w].symbols = <<"B", "A">> /\ call[w].period = call[v].period
        /\ calls = 1

\* The latest bar where both averages are defined.
LastDefined == CHOOSE i \in DefinedBars : \A j \in DefinedBars : j <= i
\* C27: a reported GOLDEN_CROSS has the short average not below the long
\* one at the latest bar where both are defined, a reported DEATH_CROSS has
\* it not above, and the reported age is not negative.
C27_TypeMatchesLatestBar ==
    (cross_pc = "done" /\ cross_info.type # "None")
    => /\ DefinedBars # {}
       /\ cross_info.type = "GOLDEN_CROSS" => df[LastDefined].DMA50 >= df[LastDefined].DMA200
       /\ cross_info.type = "DEATH_CROSS" => df[LastDefined].DMA50 <= df[LastDefined].DMA200
       /\ cross_info.days_ago >= 0
\* A golden cross reported for a short average that rose to the long one
\* some days ago and has equalled it since.
C27_Witness ==
    /\ cross_pc = "done"
    /\ cross_info.type = "GOLDEN_CROSS"
    /\ cross_info.days_ago > 0
    /\ DeathBars # {}
    /\ df[LastDefined].DMA50 = df[LastDefined].DMA200

\* C28: a death cross aged 30 days or less is rated STRONG SELL, SELL or
\* REDUCE, whatever the scores.
C28_DeathCrossCap ==
    (Rated /\ rin.cross_info.type = "DEATH_CROSS" /\ rin.cross_info.days_ago # NoDays
     /\ rin.cross_info.days_ago <= 30)
    => rout.rating \in {"STRONG SELL", "SELL", "REDUCE"}
\* A death cross aged 30 days with the best fundamentals and a combined
\* score of 30 or more is rated REDUCE.
C28_Witness ==
    /\ Rated
    /\ rin.cross_info = [type |-> "DEATH_CROSS", days_ago |-> 30]
    /\ rin.fscore = 12
    /\ rin.macd_signal = "BULLISH" /\ rin.volume_signal = "HIGH"
    /\ rin.supertrend_signal = "BULLISH"
    /\ combined_x2(rin) >= 2 * 30
    /\ rout.rating = "REDUCE"

\* C29: a call of get_cached_watchlist always returns and leaves the
\* watchlist lock free, also when no list is in memory yet.
C29_GetCachedReturns ==
    (wop.op = "get_cached_watchlist" /\ wpc = "get_acquire")
    ~> (wpc = "idle" /\ watchlist_lock = "")

\* C30: once flush_watchlist has returned after at least one save, the file
\* holds the list in memory, which is the list of the latest save.
C30_FlushedFileIsCache ==
    (wpc = "idle" /\ wop.op = "flush_watchlist" /\ Len(wfutures) > 0)
    => /\ watchlist_file = _watchlist_cache
       /\ watchlist_file = wfutures[Len(wfutures)].symbols
\* Two saves of different lists and a flush: the writer was busy with the
\* first list when the second was submitted, wrote both, and the flush has
\* returned.
C30_Witness ==
    /\ wpc = "idle" /\ wop.op = "flush_watchlist"
    /\ Len(wfutures) = 2
    /\ wfutures[1].state = "done" /\ wfutures[2].state = "done"
    /\ wfutures[1].symbols # wfutures[2].symbols
    /\ wfutures[2].symbols # <<>>
    /\ _pending_write = 0

\* No entry of table t is expired for the TTL ttl.
NoneExpired(t, ttl) == \A k \in DOMAIN t : now - t[k].ts < ttl
\* C10: when load_cache_from_disk finishes, no table holds an expired entry.
C10_LoadLeavesNoExpired ==
    [][(phase = "loaded" /\ phase' = "running")
       => /\ NoneExpired(info_cache, 300)'
          /\ NoneExpired(history_cache, 60)'
          /\ NoneExpired(batch_history_cache, 60)']_vars
\* The load has dropped the expired history entry of the file and has kept
\* the metadata entry, which is still valid.
C10_Witness ==
    /\ phase = "running"
    /\ calls = 0
    /\ AllIdle
    /\ DOMAIN disk.history # {}
    /\ DOMAIN history_cache = {}
    /\ DOMAIN info_cache # {}
    /\ now >= 60

====
